---- MODULE Spec2Model ----
(***************************************************************************)
(* Model of the plugin loader of payment_go (pkg/plugin/loader.go): the    *)
(* registry of loaded payment channel plugins, its RWMutex, and the        *)
(* operations LoadPlugin, GetPlugin, UnloadPlugin, ListPlugins,            *)
(* GetPluginInfo, validatePluginInfo, ReloadPlugin and HealthCheck, each   *)
(* called by concurrent goroutines.  A goroutine takes one step per        *)
(* access to shared state outside an exclusive section; the LoadedPlugin   *)
(* structs live in a heap so that pointers to them can be shared.          *)
(* Further sections model the hosts that dispatch payments, the demo's     *)
(* PaymentGateway, the mock payment channel with its orders map, and       *)
(* runPerformanceTest of cmd/performance.                                  *)
(***************************************************************************)
EXTENDS Integers, Sequences, FiniteSets, TLC

(* ---------------------------- bounds ----------------------------------- *)
NumProcs == 2
MaxInst == 2
MaxTime == 2
MaxUsage == 2
MaxCaps == 2
MaxGets == 3
MaxPayments == 2
MaxRequests == 3
MaxClock == 6

Procs == 1..NumProcs
NoProc == 0
ChannelIDs == {"mock", "alipay"}
NoRec == 0

(* ------------------------ plugin metadata ------------------------------ *)
\* *interfaces.PluginInfo: a nil pointer has nil = TRUE.
NilInfo == [nil |-> TRUE, Name |-> "", Version |-> "", ChannelType |-> "",
            Capabilities |-> << >>]

MkInfo(name, version, channelType, capabilities) ==
    [nil |-> FALSE, Name |-> name, Version |-> version,
     ChannelType |-> channelType, Capabilities |-> capabilities]

NoErr == "nil"

validatePluginInfo_NoVersionCheck(info) ==
    IF info.nil THEN "plugin info is nil"
    ELSE IF info.Name = "" THEN "plugin name is required"
    ELSE IF info.ChannelType = "" THEN "plugin channel type is required"
    ELSE IF Len(info.Capabilities) = 0
         THEN "plugin must declare at least one capability"
    ELSE NoErr

validatePluginInfo_NoCapCheck(info) ==
    IF info.nil THEN "plugin info is nil"
    ELSE IF info.Name = "" THEN "plugin name is required"
    ELSE IF info.Version = "" THEN "plugin version is required"
    ELSE IF info.ChannelType = "" THEN "plugin channel type is required"
    ELSE NoErr

validatePluginInfo(info) ==
    IF info.nil THEN "plugin info is nil"
    ELSE IF info.Name = "" THEN "plugin name is required"
    ELSE IF info.Version = "" THEN "plugin version is required"
    ELSE IF info.ChannelType = "" THEN "plugin channel type is required"
    ELSE IF Len(info.Capabilities) = 0
         THEN "plugin must declare at least one capability"
    ELSE NoErr

(* --------------------- artifacts on disk ------------------------------- *)
GoodPaths == {"mock.so", "alipay.so"}
BadPaths == {"missing.so", "nosym.so", "badsig.so", "nilinst.so", "nilinfo.so",
             "nocaps.so"}
Paths == GoodPaths \cup BadPaths
\* The (path, channelID) pairs that callers pass to LoadPlugin.
LoadInputs ==
    {<<"mock.so", "mock">>, <<"alipay.so", "alipay">>, <<"alipay.so", "mock">>}
      \cup (BadPaths \X {"mock"})
\* The artifact that is rebuilt, deleted and put back while the host runs.
FlakyPaths == {"mock.so"}

\* What the factory's instance reports from GetInfo, per artifact.
ArtifactInfo(path) ==
    CASE path = "mock.so"    -> MkInfo("Mock", "1.0.0", "mock", <<"collect_order">>)
      [] path = "alipay.so"  -> MkInfo("Alipay", "1.0.0", "alipay",
                                       <<"collect_order", "payout_order">>)
      [] path = "nilinfo.so" -> NilInfo
      [] path = "nocaps.so"  -> MkInfo("Mock", "1.0.0", "mock", << >>)
      [] OTHER               -> NilInfo

\* plugin.Open, p.Lookup("NewPlugin") and the type assertion of LoadPlugin:
\* the error kind they end in, or NoErr when the factory is obtained.
OpenModule(path, gone) ==
    IF path = "missing.so" \/ path \in gone THEN "OpenError"
    ELSE IF path = "nosym.so" THEN "EntryPointMissing"
    ELSE IF path = "badsig.so" THEN "EntryPointSignatureMismatch"
    ELSE NoErr

\* The errors LoadPlugin returns, by kind.
LoadErrors ==
    {"AlreadyLoaded", "OpenError", "EntryPointMissing",
     "EntryPointSignatureMismatch", "InstantiationError",
     "MetadataValidationError"}

\* newPlugin(): whether the factory of an artifact returns an instance
\* (FALSE: it returns a nil interfaces.Plugin).
FactoryReturnsInstance(path) == path # "nilinst.so"

(* ----------------------------- state ----------------------------------- *)
VARIABLES
    plugins,   \* pl.plugins: channelID -> pointer (id) of a LoadedPlugin
    heap,      \* the LoadedPlugin structs by pointer
    mutex,     \* pl.mutex: [writer, readers]
    pc,        \* per goroutine: where it is
    op,        \* per goroutine: the call in progress [name, ch, path, info]
    loc,       \* per goroutine: local variables of the call
    res,       \* per goroutine: the error returned by its last call
    out,       \* per goroutine: the value returned by its last call
    snap,      \* per goroutine: the map last returned by ListPlugins
    now,       \* the clock read by time.Now()
    nextInst,  \* number of instances created by plugin factories
    removed,   \* artifacts currently missing from disk
    lookups,   \* history: successful GetPlugin lookups per LoadedPlugin
    instMode,  \* per instance: what its GetInfo() does when called
    script,    \* the serial caller: calls made so far, its channelID and path
    channels,  \* pg.channels of the demo's PaymentGateway: the channel types added
    mc,        \* the MockChannel instance: its config and its orders map
    clock,     \* seconds gone by on the wall clock of the mock channel
    fatal,     \* the Go runtime has thrown a fatal error: the process is dead
    failedOrders, \* history: OrderIDs whose last creation response reported failure
    perf       \* runPerformanceTest: its parameters, locals, channel and workers

vars == <<plugins, heap, mutex, pc, op, loc, res, out, snap, now, nextInst,
          removed, lookups, instMode, script, channels, mc, clock, fatal,
          failedOrders, perf>>

NoInst == [id |-> 0, art |-> ""]
NoLoc == [rec |-> NoRec, inst |-> NoInst, info |-> NilInfo, t |-> 0, n |-> 0,
          path |-> "", nested |-> FALSE, resp |-> "", err |-> "",
          order |-> <<0, 0>>]
NoOp == [name |-> "none", ch |-> "", path |-> "", info |-> NilInfo]
NoOut == [kind |-> "none"]
EmptyMap == [c \in {} |-> NoRec]
NoScript == [step |-> 0, ch |-> "", path |-> ""]

\* The pairs (workerID, requestID) that order IDs are formatted from
\* ("PERF_ORDER_%d_%d"): the format is one-to-one.
OrderIDs == (0..NumProcs) \X (0..MaxRequests)
NilTime == -1
\* NewPlugin of the mock channel: &MockChannel{orders: make(map...)}; with
\* no config shouldSucceed uses its default rate of 95 percent.
DefaultSuccessRate == 95
NewMockChannel ==
    [config |-> [success_rate |-> DefaultSuccessRate],
     orders |-> [o \in {} |-> 0]]
\* No performance test is running.
NoPerf == [pc |-> "none", concurrency |-> 0, totalRequests |-> 0,
           requestChan |-> << >>, closed |-> FALSE, i |-> 0, started |-> 0,
           wg |-> 0, successCount |-> 0, failedCount |-> 0,
           consumed |-> << >>]

WriteOps == {"LoadPlugin", "UnloadPlugin", "ReloadPlugin"}
ReadOps == {"GetPlugin", "ListPlugins", "GetPluginInfo", "HealthCheck"}

Init ==
    /\ plugins = EmptyMap
    /\ heap = [i \in {} |-> NoRec]
    /\ mutex = [writer |-> NoProc, readers |-> {}]
    /\ pc = [p \in Procs |-> "idle"]
    /\ op = [p \in Procs |-> NoOp]
    /\ loc = [p \in Procs |-> NoLoc]
    /\ res = [p \in Procs |-> "none"]
    /\ out = [p \in Procs |-> NoOut]
    /\ snap = [p \in Procs |-> EmptyMap]
    /\ now = 1
    /\ nextInst = 0
    /\ removed = {}
    /\ lookups = [i \in {} |-> 0]
    /\ instMode = [i \in {} |-> "ok"]
    /\ script = NoScript
    /\ channels = {}
    /\ mc = NewMockChannel
    /\ clock = 0
    /\ fatal = FALSE
    /\ failedOrders = {}
    /\ perf = NoPerf

(* ------------------------- helpers ------------------------------------- *)
\* What GetInfo() of an instance does when it is called: "ok" returns the
\* artifact's metadata, "nil" returns nil, "panic" panics.
GetInfoModes == {"ok", "nil", "panic"}

ModeOf(inst) == IF inst.id \in DOMAIN instMode THEN instMode[inst.id] ELSE "ok"

\* instance.GetInfo() of an instance built by the factory of an artifact.
InstanceGetInfo(inst) ==
    IF ModeOf(inst) = "nil" THEN NilInfo ELSE ArtifactInfo(inst.art)

InstancePanics(inst) == ModeOf(inst) = "panic"

Extend(f, k, v) == [x \in DOMAIN f \cup {k} |-> IF x = k THEN v ELSE f[x]]
Remove(f, k) == [x \in DOMAIN f \ {k} |-> f[x]]

\* The function a goroutine is executing: ReloadPlugin calls LoadPlugin.
Fn(p) == IF loc[p].nested THEN "LoadPlugin" ELSE op[p].name

\* Which side of pl.mutex each operation takes: "w" Lock, "r" RLock.
LockMode_LoadShared(name) ==
    IF name \in {"UnloadPlugin", "ReloadPlugin"} THEN "w" ELSE "r"

LockMode(name) ==
    IF name \in {"LoadPlugin", "UnloadPlugin", "ReloadPlugin"} THEN "w" ELSE "r"

\* First statement after the lock is taken.
Entry(name) ==
    CASE name = "LoadPlugin"    -> "load_check"
      [] name = "GetPlugin"     -> "get_lookup"
      [] name = "UnloadPlugin"  -> "unl_check"
      [] name = "ListPlugins"   -> "list_copy"
      [] name = "GetPluginInfo" -> "info_lookup"
      [] name = "ReloadPlugin"  -> "rel_check"
      [] name = "HealthCheck"   -> "hc_sweep"

\* time.Now(): the clock never goes back.
NowVals == {t \in {now, now + 1} : t <= MaxTime}

\* Goroutines that will still call a plugin factory (CallOf keeps the
\* number of instances within MaxInst).
PendingLoads ==
    {q \in Procs : /\ op[q].name \in {"LoadPlugin", "ReloadPlugin"}
                   /\ pc[q] \notin {"idle", "done"}
                   /\ loc[q].inst = NoInst}

\* Goroutines inside GetPlugin (CallOf keeps the lookups within MaxUsage).
PendingGets ==
    {q \in Procs : op[q].name = "GetPlugin" /\ pc[q] \notin {"idle", "done"}}

\* Successful GetPlugin lookups made so far on the records still in use.
RECURSIVE SumOver(_, _)
SumOver(f, ks) ==
    IF ks = {} THEN 0
    ELSE LET k == CHOOSE x \in ks : TRUE IN f[k] + SumOver(f, ks \ {k})

TotalLookups == SumOver(lookups, DOMAIN lookups)

\* pl.mutex after the deferred Unlock / RUnlock of the running function.
Released_KeepsReadLock(p) ==
    IF LockMode(Fn(p)) = "w"
    THEN [mutex EXCEPT !.writer = IF @ = p THEN NoProc ELSE @]
    ELSE mutex

Released(p) ==
    IF LockMode(Fn(p)) = "w"
    THEN [mutex EXCEPT !.writer = IF @ = p THEN NoProc ELSE @]
    ELSE [mutex EXCEPT !.readers = @ \ {p}]

\* The LoadedPlugin structs still referenced from somewhere.
Live(plg, sn, lc) ==
    {plg[c] : c \in DOMAIN plg}
      \cup UNION {{sn[q][c] : c \in DOMAIN sn[q]} : q \in Procs}
      \cup {lc[q].rec : q \in Procs}

Restrict(f, ks) == [x \in DOMAIN f \cap ks |-> f[x]]

\* return err (and value) from the running function, deferred unlock
\* included.  When LoadPlugin was entered from ReloadPlugin the value is
\* handed on by ReloadPlugin, whose own deferred Unlock then finds the
\* mutex already unlocked.
Finish(p, err, val) ==
    /\ mutex' = Released(p)
    /\ pc' = [pc EXCEPT ![p] = "done"]
    /\ res' = [res EXCEPT ![p] =
                  IF loc[p].nested THEN "fatal: Unlock of unlocked RWMutex"
                  ELSE err]
    /\ out' = [out EXCEPT ![p] = val]
    /\ loc' = [loc EXCEPT ![p] = NoLoc]

(* ------------------------ calling an operation ------------------------- *)
\* A call of one of the operations names, LoadPlugin with one of the
\* (path, channelID) pairs inputs.
CallWith(p, names, inputs) ==
    /\ pc[p] = "idle"
    /\ \E name \in names, c \in ChannelIDs, path \in Paths :
          /\ name = "LoadPlugin" => <<path, c>> \in inputs
          /\ name \in {"LoadPlugin", "ReloadPlugin"} =>
                 nextInst + Cardinality(PendingLoads) < MaxInst
          /\ name = "GetPlugin" =>
                 IF c \in DOMAIN plugins
                 THEN TotalLookups + Cardinality(PendingGets) < MaxUsage
                 ELSE TRUE
          /\ name # "LoadPlugin" => path = "mock.so"
          /\ name \in {"ListPlugins", "HealthCheck"} => c = "mock"
          /\ op' = [op EXCEPT ![p] =
                       [name |-> name,
                        ch   |-> IF name \in {"ListPlugins", "HealthCheck"}
                                 THEN "" ELSE c,
                        path |-> IF name = "LoadPlugin" THEN path ELSE "",
                        info |-> NilInfo]]
          /\ loc' = [loc EXCEPT ![p] =
                       [NoLoc EXCEPT !.path =
                           IF name = "LoadPlugin" THEN path ELSE ""]]
          /\ pc' = [pc EXCEPT ![p] =
                       IF LockMode(name) = "w" THEN "lock" ELSE "rlock"]
    /\ UNCHANGED <<plugins, heap, mutex, res, out, snap, now, nextInst,
                   removed, lookups, instMode, script,
                   channels,
                   mc, clock, fatal, failedOrders, perf>>

CallOf(p, names) == CallWith(p, names, LoadInputs)

Call(p) == CallOf(p, WriteOps \cup ReadOps)

\* The caller has received the result and lets go of it.
Return(p) ==
    /\ pc[p] = "done"
    /\ pc' = [pc EXCEPT ![p] = "idle"]
    /\ op' = [op EXCEPT ![p] = NoOp]
    /\ res' = [res EXCEPT ![p] = "none"]
    /\ out' = [out EXCEPT ![p] = NoOut]
    /\ snap' = [snap EXCEPT ![p] = EmptyMap]
    /\ loc' = [loc EXCEPT ![p] = NoLoc]
    /\ heap' = Restrict(heap, Live(plugins, snap', loc'))
    /\ lookups' = Restrict(lookups, Live(plugins, snap', loc'))
    /\ UNCHANGED <<plugins, mutex, now, nextInst, removed, instMode, script,
                   channels,
                   mc, clock, fatal, failedOrders, perf>>

(* ------------------------------ pl.mutex ------------------------------- *)
\* Lock(): the writer announces itself, which blocks new readers ...
LockAnnounce(p) ==
    /\ pc[p] = "lock"
    /\ mutex.writer = NoProc
    /\ mutex' = [mutex EXCEPT !.writer = p]
    /\ pc' = [pc EXCEPT ![p] = "lockwait"]
    /\ UNCHANGED <<plugins, heap, op, loc, res, out, snap, now, nextInst,
                   removed, lookups, instMode, script,
                   channels,
                   mc, clock, fatal, failedOrders, perf>>

\* ... and proceeds once the readers have left.
LockAcquire_IgnoreReaders(p) ==
    /\ pc[p] = "lockwait"
    /\ mutex.writer = p
    /\ pc' = [pc EXCEPT ![p] = Entry(Fn(p))]
    /\ UNCHANGED <<plugins, heap, mutex, op, loc, res, out, snap, now,
                   nextInst, removed, lookups, instMode, script,
                   channels,
                   mc, clock, fatal, failedOrders, perf>>

LockAcquire(p) ==
    /\ pc[p] = "lockwait"
    /\ mutex.writer = p
    /\ mutex.readers = {}
    /\ pc' = [pc EXCEPT ![p] = Entry(Fn(p))]
    /\ UNCHANGED <<plugins, heap, mutex, op, loc, res, out, snap, now,
                   nextInst, removed, lookups, instMode, script,
                   channels,
                   mc, clock, fatal, failedOrders, perf>>

RLock_IgnoresWriter(p) ==
    /\ pc[p] = "rlock"
    /\ mutex' = [mutex EXCEPT !.readers = @ \cup {p}]
    /\ pc' = [pc EXCEPT ![p] = Entry(Fn(p))]
    /\ UNCHANGED <<plugins, heap, op, loc, res, out, snap, now, nextInst,
                   removed, lookups, instMode, script,
                   channels,
                   mc, clock, fatal, failedOrders, perf>>

RLock(p) ==
    /\ pc[p] = "rlock"
    /\ mutex.writer = NoProc
    /\ mutex' = [mutex EXCEPT !.readers = @ \cup {p}]
    /\ pc' = [pc EXCEPT ![p] = Entry(Fn(p))]
    /\ UNCHANGED <<plugins, heap, op, loc, res, out, snap, now, nextInst,
                   removed, lookups, instMode, script,
                   channels,
                   mc, clock, fatal, failedOrders, perf>>

(* ----------------------------- LoadPlugin ------------------------------ *)
LoadCheck_Overwrites(p) ==
    /\ pc[p] = "load_check"
    /\ pc' = [pc EXCEPT ![p] = "load_open"]
    /\ UNCHANGED <<plugins, heap, mutex, op, loc, res, out, snap, now,
                   nextInst, removed, lookups, instMode, script,
                   channels,
                   mc, clock, fatal, failedOrders, perf>>

LoadCheck(p) ==
    /\ pc[p] = "load_check"
    /\ IF op[p].ch \in DOMAIN plugins
       THEN Finish(p, "AlreadyLoaded", NoOut)
       ELSE /\ pc' = [pc EXCEPT ![p] = "load_open"]
            /\ UNCHANGED <<mutex, loc, res, out>>
    /\ UNCHANGED <<plugins, heap, op, snap, now, nextInst, removed, lookups,
                   instMode, script, channels,
                   mc, clock, fatal, failedOrders, perf>>

\* plugin.Open, Lookup and the type assertion; instance := newPlugin();
\* info := instance.GetInfo(), which panics on a nil instance;
\* validatePluginInfo(info)
LoadOpen(p) ==
    /\ pc[p] = "load_open"
    /\ LET e    == OpenModule(loc[p].path, removed)
           inst == [id |-> nextInst + 1, art |-> loc[p].path]
           info == InstanceGetInfo(inst)
       IN
       IF e # NoErr
       THEN Finish(p, e, NoOut) /\ UNCHANGED <<nextInst, instMode>>
       ELSE IF ~FactoryReturnsInstance(loc[p].path)
       THEN Finish(p, "panic", NoOut) /\ UNCHANGED <<nextInst, instMode>>
       ELSE /\ nextInst < MaxInst
            /\ nextInst' = nextInst + 1
            /\ instMode' = Extend(instMode, inst.id, "ok")
            /\ IF validatePluginInfo(info) # NoErr
               THEN Finish(p, "MetadataValidationError", NoOut)
               ELSE /\ loc' = [loc EXCEPT ![p].inst = inst, ![p].info = info]
                    /\ pc' = [pc EXCEPT ![p] = "load_store"]
                    /\ UNCHANGED <<mutex, res, out>>
    /\ UNCHANGED <<plugins, heap, op, snap, now, removed, lookups, script,
                   channels,
                   mc, clock, fatal, failedOrders, perf>>

NewRecord_NoLoadedAt(path, inst, info, t) ==
    [Path |-> path, Instance |-> inst, Info |-> info, LoadedAt |-> 0,
     LastUsed |-> 0, UsageCount |-> 0]

NewRecord(path, inst, info, t) ==
    [Path |-> path, Instance |-> inst, Info |-> info, LoadedAt |-> t,
     LastUsed |-> 0, UsageCount |-> 0]

LoadStore(p) ==
    /\ pc[p] = "load_store"
    /\ \E t \in NowVals :
          /\ now' = t
          /\ heap' = Extend(heap, loc[p].inst.id,
                            NewRecord(loc[p].path, loc[p].inst, loc[p].info, t))
    /\ plugins' = Extend(plugins, op[p].ch, loc[p].inst.id)
    /\ lookups' = Extend(lookups, loc[p].inst.id, 0)
    /\ Finish(p, "ok", NoOut)
    /\ UNCHANGED <<op, snap, nextInst, removed, instMode, script, channels,
                   mc, clock, fatal, failedOrders, perf>>

(* ------------------------------ GetPlugin ------------------------------ *)
GetLookup(p) ==
    /\ pc[p] = "get_lookup"
    /\ IF op[p].ch \notin DOMAIN plugins
       THEN Finish(p, "NotFound", NoOut) /\ now' = now
       ELSE /\ \E t \in NowVals :
                 /\ now' = t
                 /\ loc' = [loc EXCEPT ![p].rec = plugins[op[p].ch], ![p].t = t]
            /\ pc' = [pc EXCEPT ![p] = "get_wlast"]
            /\ UNCHANGED <<mutex, res, out>>
    /\ UNCHANGED <<plugins, heap, op, snap, nextInst, removed, lookups,
                   instMode, script, channels,
                   mc, clock, fatal, failedOrders, perf>>

GetWriteLast_WritesLoadedAt(p) ==
    /\ pc[p] = "get_wlast"
    /\ heap' = [heap EXCEPT ![loc[p].rec].LastUsed = loc[p].t,
                            ![loc[p].rec].LoadedAt = loc[p].t]
    /\ loc' = [loc EXCEPT ![p].t = 0]
    /\ pc' = [pc EXCEPT ![p] = "get_read"]
    /\ UNCHANGED <<plugins, mutex, op, res, out, snap, now, nextInst,
                   removed, lookups, instMode, script,
                   channels,
                   mc, clock, fatal, failedOrders, perf>>

\* loadedPlugin.LastUsed = <the time read>
GetWriteLast(p) ==
    /\ pc[p] = "get_wlast"
    /\ heap' = [heap EXCEPT ![loc[p].rec].LastUsed = loc[p].t]
    /\ loc' = [loc EXCEPT ![p].t = 0]
    /\ pc' = [pc EXCEPT ![p] = "get_read"]
    /\ UNCHANGED <<plugins, mutex, op, res, out, snap, now, nextInst,
                   removed, lookups, instMode, script,
                   channels,
                   mc, clock, fatal, failedOrders, perf>>

\* loadedPlugin.UsageCount++ : the read ...
GetRead(p) ==
    /\ pc[p] = "get_read"
    /\ loc' = [loc EXCEPT ![p].n = heap[loc[p].rec].UsageCount]
    /\ pc' = [pc EXCEPT ![p] = "get_write"]
    /\ UNCHANGED <<plugins, heap, mutex, op, res, out, snap, now, nextInst,
                   removed, lookups, instMode, script,
                   channels,
                   mc, clock, fatal, failedOrders, perf>>

\* ... and the write, then return loadedPlugin.Instance, nil
GetWrite(p) ==
    /\ pc[p] = "get_write"
    /\ heap' = [heap EXCEPT ![loc[p].rec].UsageCount = loc[p].n + 1]
    /\ lookups' = [lookups EXCEPT ![loc[p].rec] = @ + 1]
    /\ Finish(p, "ok", [kind |-> "instance", v |-> heap[loc[p].rec].Instance])
    /\ UNCHANGED <<plugins, op, snap, now, nextInst, removed, instMode, script,
                   channels,
                   mc, clock, fatal, failedOrders, perf>>

(* ---------------------------- UnloadPlugin ----------------------------- *)
UnloadCheck_NoError(p) ==
    /\ pc[p] = "unl_check"
    /\ IF op[p].ch \notin DOMAIN plugins
       THEN Finish(p, "ok", NoOut)
       ELSE /\ pc' = [pc EXCEPT ![p] = "unl_delete"]
            /\ UNCHANGED <<mutex, loc, res, out>>
    /\ UNCHANGED <<plugins, heap, op, snap, now, nextInst, removed, lookups,
                   instMode, script, channels,
                   mc, clock, fatal, failedOrders, perf>>

UnloadCheck(p) ==
    /\ pc[p] = "unl_check"
    /\ IF op[p].ch \notin DOMAIN plugins
       THEN Finish(p, "NotFound", NoOut)
       ELSE /\ pc' = [pc EXCEPT ![p] = "unl_delete"]
            /\ UNCHANGED <<mutex, loc, res, out>>
    /\ UNCHANGED <<plugins, heap, op, snap, now, nextInst, removed, lookups,
                   instMode, script, channels,
                   mc, clock, fatal, failedOrders, perf>>

UnloadDelete_KeepsRecord(p) ==
    /\ pc[p] = "unl_delete"
    /\ Finish(p, "ok", NoOut)
    /\ UNCHANGED <<plugins, heap, op, snap, now, nextInst, removed, lookups,
                   instMode, script, channels,
                   mc, clock, fatal, failedOrders, perf>>

UnloadDelete(p) ==
    /\ pc[p] = "unl_delete"
    /\ plugins' = Remove(plugins, op[p].ch)
    /\ Finish(p, "ok", NoOut)
    /\ heap' = Restrict(heap, Live(plugins', snap, loc'))
    /\ lookups' = Restrict(lookups, Live(plugins', snap, loc'))
    /\ UNCHANGED <<op, snap, now, nextInst, removed, instMode, script,
                   channels,
                   mc, clock, fatal, failedOrders, perf>>

(* ----------------------------- ListPlugins ----------------------------- *)
\* The map a caller receives: a new map holding the registry's own pointers.
ListResult(m) == [k \in DOMAIN m |-> m[k]]

ListCopy(p) ==
    /\ pc[p] = "list_copy"
    /\ snap' = [snap EXCEPT ![p] = ListResult(plugins)]
    /\ Finish(p, "ok", NoOut)
    /\ UNCHANGED <<plugins, heap, op, now, nextInst, removed, lookups, instMode, script,
                   channels,
                   mc, clock, fatal, failedOrders, perf>>

(* ---------------------------- GetPluginInfo ---------------------------- *)
InfoLookup(p) ==
    /\ pc[p] = "info_lookup"
    /\ IF op[p].ch \notin DOMAIN plugins
       THEN Finish(p, "NotFound", NoOut)
       ELSE /\ loc' = [loc EXCEPT ![p].rec = plugins[op[p].ch]]
            /\ pc' = [pc EXCEPT ![p] = "info_call"]
            /\ UNCHANGED <<mutex, res, out>>
    /\ UNCHANGED <<plugins, heap, op, snap, now, nextInst, removed, lookups,
                   instMode, script, channels,
                   mc, clock, fatal, failedOrders, perf>>

InfoCall_Cached(p) ==
    /\ pc[p] = "info_call"
    /\ Finish(p, "ok", [kind |-> "info", v |-> heap[loc[p].rec].Info])
    /\ UNCHANGED <<plugins, heap, op, snap, now, nextInst, removed, lookups,
                   instMode, script, channels,
                   mc, clock, fatal, failedOrders, perf>>

\* return loadedPlugin.Instance.GetInfo(), nil
InfoCall(p) ==
    /\ pc[p] = "info_call"
    /\ IF InstancePanics(heap[loc[p].rec].Instance)
       THEN Finish(p, "panic", NoOut)
       ELSE Finish(p, "ok", [kind |-> "info",
                             v |-> InstanceGetInfo(heap[loc[p].rec].Instance)])
    /\ UNCHANGED <<plugins, heap, op, snap, now, nextInst, removed, lookups,
                   instMode, script, channels,
                   mc, clock, fatal, failedOrders, perf>>

(* ---------------------------- ReloadPlugin ----------------------------- *)
ReloadCheck(p) ==
    /\ pc[p] = "rel_check"
    /\ IF op[p].ch \notin DOMAIN plugins
       THEN Finish(p, "NotFound", NoOut)
       ELSE /\ loc' = [loc EXCEPT ![p].rec = plugins[op[p].ch]]
            /\ pc' = [pc EXCEPT ![p] = "rel_delete"]
            /\ UNCHANGED <<mutex, res, out>>
    /\ UNCHANGED <<plugins, heap, op, snap, now, nextInst, removed, lookups,
                   instMode, script, channels,
                   mc, clock, fatal, failedOrders, perf>>

ReloadDelete_Unlocks(p) ==
    /\ pc[p] = "rel_delete"
    /\ plugins' = Remove(plugins, op[p].ch)
    /\ loc' = [loc EXCEPT ![p].nested = TRUE,
                          ![p].path = heap[loc[p].rec].Path,
                          ![p].rec = NoRec]
    /\ pc' = [pc EXCEPT ![p] = "lock"]
    /\ mutex' = [mutex EXCEPT !.writer = NoProc]
    /\ heap' = Restrict(heap, Live(plugins', snap, loc'))
    /\ lookups' = Restrict(lookups, Live(plugins', snap, loc'))
    /\ UNCHANGED <<op, res, out, snap, now, nextInst, removed, instMode, script,
                   channels,
                   mc, clock, fatal, failedOrders, perf>>

\* delete(pl.plugins, channelID); return pl.LoadPlugin(loadedPlugin.Path,
\* channelID): the call starts with LoadPlugin's own pl.mutex.Lock().
ReloadDelete(p) ==
    /\ pc[p] = "rel_delete"
    /\ plugins' = Remove(plugins, op[p].ch)
    /\ loc' = [loc EXCEPT ![p].nested = TRUE,
                          ![p].path = heap[loc[p].rec].Path,
                          ![p].rec = NoRec]
    /\ pc' = [pc EXCEPT ![p] =
                 IF LockMode("LoadPlugin") = "w" THEN "lock" ELSE "rlock"]
    /\ heap' = Restrict(heap, Live(plugins', snap, loc'))
    /\ lookups' = Restrict(lookups, Live(plugins', snap, loc'))
    /\ UNCHANGED <<mutex, op, res, out, snap, now, nextInst, removed, instMode, script,
                   channels,
                   mc, clock, fatal, failedOrders, perf>>

(* ----------------------------- HealthCheck ----------------------------- *)
\* health[channelID] = info != nil for every entry of pl.plugins.
HealthResult_AllTrue == [c \in DOMAIN plugins |-> TRUE]

HealthResult ==
    [c \in DOMAIN plugins |-> ~InstanceGetInfo(heap[plugins[c]].Instance).nil]

\* The loop calls GetInfo() of every registered instance; a panic of one of
\* the calls is not recovered and ends HealthCheck without a result.
HealthSweep(p) ==
    /\ pc[p] = "hc_sweep"
    /\ IF \E c \in DOMAIN plugins : InstancePanics(heap[plugins[c]].Instance)
       THEN Finish(p, "panic", NoOut)
       ELSE Finish(p, "ok", [kind |-> "health", v |-> HealthResult])
    /\ UNCHANGED <<plugins, heap, op, snap, now, nextInst, removed, lookups,
                   instMode, script, channels,
                   mc, clock, fatal, failedOrders, perf>>

(* ------------------------- the file system ----------------------------- *)
\* An artifact is deleted from, or put back on, the disk between calls.
RemoveArtifact(path) ==
    /\ path \in FlakyPaths \ removed
    /\ removed' = removed \cup {path}
    /\ UNCHANGED <<plugins, heap, mutex, pc, op, loc, res, out, snap, now,
                   nextInst, lookups, instMode, script,
                   channels,
                   mc, clock, fatal, failedOrders, perf>>

RestoreArtifact(path) ==
    /\ path \in removed
    /\ removed' = removed \ {path}
    /\ UNCHANGED <<plugins, heap, mutex, pc, op, loc, res, out, snap, now,
                   nextInst, lookups, instMode, script,
                   channels,
                   mc, clock, fatal, failedOrders, perf>>

(* --------------------------- specification ----------------------------- *)
Next ==
    \/ \E p \in Procs : Call(p)
    \/ \E p \in Procs : Return(p)
    \/ \E p \in Procs : LockAnnounce(p)
    \/ \E p \in Procs : LockAcquire(p)
    \/ \E p \in Procs : RLock(p)
    \/ \E p \in Procs : LoadCheck(p)
    \/ \E p \in Procs : LoadOpen(p)
    \/ \E p \in Procs : LoadStore(p)
    \/ \E p \in Procs : GetLookup(p)
    \/ \E p \in Procs : GetWriteLast(p)
    \/ \E p \in Procs : GetRead(p)
    \/ \E p \in Procs : GetWrite(p)
    \/ \E p \in Procs : UnloadCheck(p)
    \/ \E p \in Procs : UnloadDelete(p)
    \/ \E p \in Procs : ListCopy(p)
    \/ \E p \in Procs : InfoLookup(p)
    \/ \E p \in Procs : InfoCall(p)
    \/ \E p \in Procs : ReloadCheck(p)
    \/ \E p \in Procs : ReloadDelete(p)
    \/ \E p \in Procs : HealthSweep(p)
    \/ \E path \in FlakyPaths : RemoveArtifact(path)
    \/ \E path \in FlakyPaths : RestoreArtifact(path)

Spec == Init /\ [][Next]_vars

(* ------------- a caller that writes to what ListPlugins returned -------- *)
\* loadedPlugin.UsageCount = 42, .Path = "/test/path", .Instance = nil on a
\* *LoadedPlugin taken from the returned map.
CallerWrite(p) ==
    /\ pc[p] = "done"
    /\ op[p].name = "ListPlugins"
    /\ \E c \in DOMAIN snap[p], field \in {"UsageCount", "Path", "Instance"} :
          heap' = [heap EXCEPT ![snap[p][c]] =
                     CASE field = "UsageCount" -> [@ EXCEPT !.UsageCount = 42]
                       [] field = "Path"       -> [@ EXCEPT !.Path = "/test/path"]
                       [] field = "Instance"   -> [@ EXCEPT !.Instance = NoInst]]
    /\ UNCHANGED <<plugins, mutex, pc, op, loc, res, out, snap, now, nextInst,
                   removed, lookups, instMode, script,
                   channels,
                   mc, clock, fatal, failedOrders, perf>>

\* delete(m, channelID) on the returned map.
CallerDropKey(p) ==
    /\ pc[p] = "done"
    /\ op[p].name = "ListPlugins"
    /\ \E c \in DOMAIN snap[p] : snap' = [snap EXCEPT ![p] = Remove(@, c)]
    /\ UNCHANGED <<plugins, heap, mutex, pc, op, loc, res, out, now, nextInst,
                   removed, lookups, instMode, script,
                   channels,
                   mc, clock, fatal, failedOrders, perf>>

NextCaller ==
    \/ \E p \in Procs : CallOf(p, {"LoadPlugin", "ListPlugins"})
    \/ \E p \in Procs : Return(p)
    \/ \E p \in Procs : LockAnnounce(p)
    \/ \E p \in Procs : LockAcquire(p)
    \/ \E p \in Procs : RLock(p)
    \/ \E p \in Procs : LoadCheck(p)
    \/ \E p \in Procs : LoadOpen(p)
    \/ \E p \in Procs : LoadStore(p)
    \/ \E p \in Procs : ListCopy(p)
    \/ \E p \in Procs : CallerWrite(p)
    \/ \E p \in Procs : CallerDropKey(p)

SpecCaller == Init /\ [][NextCaller]_vars

(* ------------- validatePluginInfo called on its own -------------------- *)
CapNames == {"collect_order", "payout_order"}
CapLists == UNION {[1..n -> CapNames] : n \in 0..MaxCaps}
InfoInputs ==
    {NilInfo} \cup
    {MkInfo(n, v, t, cs) : n \in {"", "Mock"}, v \in {"", "1.0.0"},
                           t \in {"", "mock"}, cs \in CapLists}

\* A registry holding one loaded channel; one goroutine is about to call
\* validatePluginInfo(info).
LoadedMock ==
    NewRecord("mock.so", [id |-> 1, art |-> "mock.so"], ArtifactInfo("mock.so"), 1)

InitValidate ==
    /\ plugins = [c \in {"mock"} |-> 1]
    /\ heap = [i \in {1} |-> LoadedMock]
    /\ mutex = [writer |-> NoProc, readers |-> {}]
    /\ \E p \in Procs, info \in InfoInputs :
          /\ pc = [q \in Procs |-> IF q = p THEN "validate" ELSE "idle"]
          /\ op = [q \in Procs |->
                     IF q = p THEN [NoOp EXCEPT !.name = "validatePluginInfo",
                                                !.info = info]
                     ELSE NoOp]
    /\ loc = [p \in Procs |-> NoLoc]
    /\ res = [p \in Procs |-> "none"]
    /\ out = [p \in Procs |-> NoOut]
    /\ snap = [p \in Procs |-> EmptyMap]
    /\ now = 1
    /\ nextInst = 1
    /\ removed = {}
    /\ lookups = [i \in {1} |-> 0]
    /\ instMode = [i \in {1} |-> "ok"]
    /\ script = NoScript
    /\ channels = {}
    /\ mc = NewMockChannel
    /\ clock = 0
    /\ fatal = FALSE
    /\ failedOrders = {}
    /\ perf = NoPerf

ValidateStep(p) ==
    /\ pc[p] = "validate"
    /\ pc' = [pc EXCEPT ![p] = "done"]
    /\ res' = [res EXCEPT ![p] = validatePluginInfo(op[p].info)]
    /\ UNCHANGED <<plugins, heap, mutex, op, loc, out, snap, now, nextInst,
                   removed, lookups, instMode, script,
                   channels,
                   mc, clock, fatal, failedOrders, perf>>

NextValidate == \E p \in Procs : ValidateStep(p)

SpecValidate == InitValidate /\ [][NextValidate]_vars

(* ------------- instances whose GetInfo() starts to fail ---------------- *)
\* A registered instance changes its internal state: from now on GetInfo()
\* returns nil, or panics.
InstanceFail(i) ==
    /\ i \in {plugins[c] : c \in DOMAIN plugins}
    /\ instMode[i] = "ok"
    /\ \E m \in GetInfoModes \ {"ok"} : instMode' = [instMode EXCEPT ![i] = m]
    /\ UNCHANGED <<plugins, heap, mutex, pc, op, loc, res, out, snap, now,
                   nextInst, removed, lookups, script,
                   channels,
                   mc, clock, fatal, failedOrders, perf>>

NextHealth ==
    \/ \E p \in Procs : CallOf(p, {"LoadPlugin", "GetPluginInfo", "HealthCheck"})
    \/ \E p \in Procs : Return(p)
    \/ \E p \in Procs : LockAnnounce(p)
    \/ \E p \in Procs : LockAcquire(p)
    \/ \E p \in Procs : RLock(p)
    \/ \E p \in Procs : LoadCheck(p)
    \/ \E p \in Procs : LoadOpen(p)
    \/ \E p \in Procs : LoadStore(p)
    \/ \E p \in Procs : InfoLookup(p)
    \/ \E p \in Procs : InfoCall(p)
    \/ \E p \in Procs : HealthSweep(p)
    \/ \E i \in 1..MaxInst : InstanceFail(i)

SpecHealth == Init /\ [][NextHealth]_vars

(* ------------- one caller making calls one after the other ------------- *)
\* The calls of the serial caller, in order; every call is made with the
\* channelID (and, for LoadPlugin, the path) of the first.
ScriptOps ==
    <<"LoadPlugin", "ListPlugins", "GetPlugin", "GetPlugin", "GetPlugin",
      "LoadPlugin", "UnloadPlugin", "ListPlugins", "GetPlugin">>

ScriptCall(p) ==
    /\ \A q \in Procs : pc[q] = "idle"
    /\ script.step < Len(ScriptOps)
    /\ \E c \in ChannelIDs, path \in GoodPaths :
          /\ <<path, c>> \in LoadInputs
          /\ script.step > 0 => c = script.ch /\ path = script.path
          /\ LET name == ScriptOps[script.step + 1] IN
             /\ script' = [step |-> script.step + 1, ch |-> c, path |-> path]
             /\ op' = [op EXCEPT ![p] =
                          [name |-> name,
                           ch   |-> IF name = "ListPlugins" THEN "" ELSE c,
                           path |-> IF name = "LoadPlugin" THEN path ELSE "",
                           info |-> NilInfo]]
             /\ loc' = [loc EXCEPT ![p] =
                          [NoLoc EXCEPT !.path =
                              IF name = "LoadPlugin" THEN path ELSE ""]]
             /\ pc' = [pc EXCEPT ![p] =
                          IF LockMode(name) = "w" THEN "lock" ELSE "rlock"]
    /\ UNCHANGED <<plugins, heap, mutex, res, out, snap, now, nextInst,
                   removed, lookups, instMode, channels,
                   mc, clock, fatal, failedOrders, perf>>

NextScript ==
    \/ \E p \in Procs : ScriptCall(p)
    \/ \E p \in Procs : Return(p)
    \/ \E p \in Procs : LockAnnounce(p)
    \/ \E p \in Procs : LockAcquire(p)
    \/ \E p \in Procs : RLock(p)
    \/ \E p \in Procs : LoadCheck(p)
    \/ \E p \in Procs : LoadOpen(p)
    \/ \E p \in Procs : LoadStore(p)
    \/ \E p \in Procs : GetLookup(p)
    \/ \E p \in Procs : GetWriteLast(p)
    \/ \E p \in Procs : GetRead(p)
    \/ \E p \in Procs : GetWrite(p)
    \/ \E p \in Procs : UnloadCheck(p)
    \/ \E p \in Procs : UnloadDelete(p)
    \/ \E p \in Procs : ListCopy(p)

SpecScript == Init /\ [][NextScript]_vars

(* ------------- dispatch: a payment call on a looked-up instance -------- *)
\* The six operations of interfaces.PaymentChannel.
PaymentOps ==
    {"CollectOrder", "PayoutOrder", "CollectQuery", "PayoutQuery",
     "BalanceInquiry", "Callback"}

\* paymentChannel, err := loader.GetPlugin(channelID) has returned an
\* instance; the caller invokes one of the payment operations on it.
PaymentCall(p) ==
    /\ pc[p] = "done"
    /\ op[p].name = "GetPlugin"
    /\ res[p] = "ok"
    /\ \E name \in PaymentOps : op' = [op EXCEPT ![p].name = name]
    /\ pc' = [pc EXCEPT ![p] = "payment"]
    /\ UNCHANGED <<plugins, heap, mutex, loc, res, out, snap, now, nextInst,
                   removed, lookups, instMode, script,
                   channels,
                   mc, clock, fatal, failedOrders, perf>>

\* The module answers and the caller is done with the instance; a call
\* that hangs never takes this step.
PaymentReturn(p) ==
    /\ pc[p] = "payment"
    /\ pc' = [pc EXCEPT ![p] = "idle"]
    /\ op' = [op EXCEPT ![p] = NoOp]
    /\ res' = [res EXCEPT ![p] = "none"]
    /\ out' = [out EXCEPT ![p] = NoOut]
    /\ UNCHANGED <<plugins, heap, mutex, loc, snap, now, nextInst, removed,
                   lookups, instMode, script, channels,
                   mc, clock, fatal, failedOrders, perf>>

\* The calls made where payments are dispatched: each channel is loaded
\* from its own artifact.
DispatchInputs == {<<"mock.so", "mock">>, <<"alipay.so", "alipay">>}

DispatchCall(p) ==
    CallWith(p, {"LoadPlugin", "GetPlugin", "UnloadPlugin"}, DispatchInputs)

\* A step of goroutine p inside a registry operation once it has asked for
\* the lock.
RegistryStep(p) ==
    \/ LockAcquire(p)
    \/ LoadCheck(p) \/ LoadOpen(p) \/ LoadStore(p)
    \/ GetLookup(p) \/ GetWriteLast(p) \/ GetRead(p) \/ GetWrite(p)
    \/ UnloadCheck(p) \/ UnloadDelete(p)

NextDispatch ==
    \/ \E p \in Procs : DispatchCall(p)
    \/ \E p \in Procs : Return(p)
    \/ \E p \in Procs : LockAnnounce(p)
    \/ \E p \in Procs : RLock(p)
    \/ \E p \in Procs : RegistryStep(p)
    \/ \E p \in Procs : PaymentCall(p)
    \/ \E p \in Procs : PaymentReturn(p)

\* A running goroutine goes on running, and sync.RWMutex hands the lock to
\* a goroutine that keeps waiting for it; nothing makes a module answer.
SpecDispatch ==
    /\ Init
    /\ [][NextDispatch]_vars
    /\ \A p \in Procs : /\ WF_vars(RegistryStep(p))
                         /\ SF_vars(LockAnnounce(p))
                         /\ SF_vars(RLock(p))

(* ------------- concurrent GetPlugin calls on one loaded channel -------- *)
\* The registry after LoadPlugin("mock.so", "mock"); every goroutine is about
\* to call GetPlugin("mock"), at most MaxGets calls in all.
InitGet ==
    /\ plugins = [c \in {"mock"} |-> 1]
    /\ heap = [i \in {1} |-> LoadedMock]
    /\ mutex = [writer |-> NoProc, readers |-> {}]
    /\ pc = [p \in Procs |-> "idle"]
    /\ op = [p \in Procs |-> NoOp]
    /\ loc = [p \in Procs |-> NoLoc]
    /\ res = [p \in Procs |-> "none"]
    /\ out = [p \in Procs |-> NoOut]
    /\ snap = [p \in Procs |-> EmptyMap]
    /\ now = 1
    /\ nextInst = 1
    /\ removed = {}
    /\ lookups = [i \in {1} |-> 0]
    /\ instMode = [i \in {1} |-> "ok"]
    /\ script = NoScript
    /\ channels = {}
    /\ mc = NewMockChannel
    /\ clock = 0
    /\ fatal = FALSE
    /\ failedOrders = {}
    /\ perf = NoPerf

GetCall(p) ==
    /\ pc[p] = "idle"
    /\ TotalLookups + Cardinality(PendingGets) < MaxGets
    /\ op' = [op EXCEPT ![p] = [NoOp EXCEPT !.name = "GetPlugin", !.ch = "mock"]]
    /\ pc' = [pc EXCEPT ![p] = "rlock"]
    /\ UNCHANGED <<plugins, heap, mutex, loc, res, out, snap, now, nextInst,
                   removed, lookups, instMode, script,
                   channels,
                   mc, clock, fatal, failedOrders, perf>>

NextGet ==
    \/ \E p \in Procs : GetCall(p)
    \/ \E p \in Procs : Return(p)
    \/ \E p \in Procs : RLock(p)
    \/ \E p \in Procs : GetLookup(p)
    \/ \E p \in Procs : GetWriteLast(p)
    \/ \E p \in Procs : GetRead(p)
    \/ \E p \in Procs : GetWrite(p)

SpecGet == InitGet /\ [][NextGet]_vars

(* ------------- the demo hosts: one lookup, many payment calls ---------- *)
\* main keeps the instance that GetPlugin returned and calls one payment
\* operation after the other on it; loc.n counts the calls it has made.
DemoPayment(p) ==
    /\ pc[p] = "done"
    /\ op[p].name = "GetPlugin"
    /\ res[p] = "ok"
    /\ loc[p].n < MaxPayments
    /\ loc' = [loc EXCEPT ![p].n = @ + 1]
    /\ UNCHANGED <<plugins, heap, mutex, pc, op, res, out, snap, now, nextInst,
                   removed, lookups, instMode, script, channels,
                   mc, clock, fatal, failedOrders, perf>>

DemoCall(p) == CallWith(p, {"LoadPlugin", "GetPlugin"}, DispatchInputs)

NextDemo ==
    \/ \E p \in Procs : DemoCall(p)
    \/ \E p \in Procs : Return(p)
    \/ \E p \in Procs : LockAnnounce(p)
    \/ \E p \in Procs : LockAcquire(p)
    \/ \E p \in Procs : RLock(p)
    \/ \E p \in Procs : LoadCheck(p)
    \/ \E p \in Procs : LoadOpen(p)
    \/ \E p \in Procs : LoadStore(p)
    \/ \E p \in Procs : GetLookup(p)
    \/ \E p \in Procs : GetWriteLast(p)
    \/ \E p \in Procs : GetRead(p)
    \/ \E p \in Procs : GetWrite(p)
    \/ \E p \in Procs : DemoPayment(p)

SpecDemo == Init /\ [][NextDemo]_vars

(* ------------- the PaymentGateway of the multi channel demo ------------ *)
\* What a channel's CollectOrder returns: a response and no error, or no
\* response and an error.
ModuleResults ==
    {[resp |-> "response", err |-> "ok"], [resp |-> "", err |-> "ChannelError"]}

\* gateway.AddChannel(channelType, channel), made by main between payments.
AddChannel(c) ==
    /\ \A q \in Procs : pc[q] = "idle"
    /\ c \notin channels
    /\ channels' = channels \cup {c}
    /\ UNCHANGED <<plugins, heap, mutex, pc, op, loc, res, out, snap, now,
                   nextInst, removed, lookups, instMode, script,
                   mc, clock, fatal, failedOrders, perf>>

\* gateway.ProcessPayment(channelType, ...) is called.
ProcessPaymentCall(p) ==
    /\ pc[p] = "idle"
    /\ \E c \in ChannelIDs :
          op' = [op EXCEPT ![p] = [NoOp EXCEPT !.name = "ProcessPayment", !.ch = c]]
    /\ pc' = [pc EXCEPT ![p] = "pp_lookup"]
    /\ UNCHANGED <<plugins, heap, mutex, loc, res, out, snap, now, nextInst,
                   removed, lookups, instMode, script, channels,
                   mc, clock, fatal, failedOrders, perf>>

\* channel, exists := pg.GetChannel(channelType); if !exists { return error }
ProcessPaymentLookup(p) ==
    /\ pc[p] = "pp_lookup"
    /\ IF op[p].ch \notin channels
       THEN /\ pc' = [pc EXCEPT ![p] = "done"]
            /\ res' = [res EXCEPT ![p] = "NotFound"]
       ELSE /\ pc' = [pc EXCEPT ![p] = "pp_invoke"]
            /\ res' = res
    /\ UNCHANGED <<plugins, heap, mutex, op, loc, out, snap, now, nextInst,
                   removed, lookups, instMode, script, channels,
                   mc, clock, fatal, failedOrders, perf>>

\* _, err := channel.CollectOrder(context.Background(), req)
ProcessPaymentInvoke(p) ==
    /\ pc[p] = "pp_invoke"
    /\ \E r \in ModuleResults :
          loc' = [loc EXCEPT ![p].resp = r.resp, ![p].err = r.err, ![p].n = @ + 1]
    /\ pc' = [pc EXCEPT ![p] = "pp_return"]
    /\ UNCHANGED <<plugins, heap, mutex, op, res, out, snap, now, nextInst,
                   removed, lookups, instMode, script, channels,
                   mc, clock, fatal, failedOrders, perf>>

\* return err
ProcessPaymentReturn(p) ==
    /\ pc[p] = "pp_return"
    /\ res' = [res EXCEPT ![p] = loc[p].err]
    /\ out' = [out EXCEPT ![p] = NoOut]
    /\ loc' = [loc EXCEPT ![p] = NoLoc]
    /\ pc' = [pc EXCEPT ![p] = "done"]
    /\ UNCHANGED <<plugins, heap, mutex, op, snap, now, nextInst, removed,
                   lookups, instMode, script, channels,
                   mc, clock, fatal, failedOrders, perf>>

NextGateway ==
    \/ \E c \in ChannelIDs : AddChannel(c)
    \/ \E p \in Procs : ProcessPaymentCall(p)
    \/ \E p \in Procs : ProcessPaymentLookup(p)
    \/ \E p \in Procs : ProcessPaymentInvoke(p)
    \/ \E p \in Procs : ProcessPaymentReturn(p)
    \/ \E p \in Procs : Return(p)

SpecGateway == Init /\ [][NextGateway]_vars

(* ------------- a host that loads and unloads while it runs ------------- *)
\* Channels are loaded, looked up, listed, probed and unloaded over and over
\* by the goroutines of one running host.
CycleCall(p) ==
    CallOf(p, {"LoadPlugin", "UnloadPlugin", "GetPlugin", "ListPlugins",
               "HealthCheck"})

NextCycle ==
    \/ \E p \in Procs : CycleCall(p)
    \/ \E p \in Procs : Return(p)
    \/ \E p \in Procs : LockAnnounce(p)
    \/ \E p \in Procs : LockAcquire(p)
    \/ \E p \in Procs : RLock(p)
    \/ \E p \in Procs : LoadCheck(p)
    \/ \E p \in Procs : LoadOpen(p)
    \/ \E p \in Procs : LoadStore(p)
    \/ \E p \in Procs : GetLookup(p)
    \/ \E p \in Procs : GetWriteLast(p)
    \/ \E p \in Procs : GetRead(p)
    \/ \E p \in Procs : GetWrite(p)
    \/ \E p \in Procs : UnloadCheck(p)
    \/ \E p \in Procs : UnloadDelete(p)
    \/ \E p \in Procs : ListCopy(p)
    \/ \E p \in Procs : HealthSweep(p)

SpecCycle == Init /\ [][NextCycle]_vars

(* --------------- a channel whose module stops answering --------------- *)
\* The channel whose module may never return from a call the registry makes
\* into it: the factory and GetInfo during LoadPlugin, GetInfo during
\* GetPluginInfo and HealthCheck.
HungChannel == "mock"

HangCall(p) ==
    CallWith(p, {"LoadPlugin", "GetPlugin", "UnloadPlugin", "GetPluginInfo",
                 "HealthCheck"}, DispatchInputs)

\* A step of goroutine p inside a registry operation that is the
\* registry's own code or a call into a module that answers.
AnsweringStep(p) ==
    \/ LockAcquire(p)
    \/ LoadCheck(p) \/ LoadStore(p)
    \/ GetLookup(p) \/ GetWriteLast(p) \/ GetRead(p) \/ GetWrite(p)
    \/ UnloadCheck(p) \/ UnloadDelete(p)
    \/ InfoLookup(p)
    \/ (op[p].ch # HungChannel /\ LoadOpen(p))
    \/ (op[p].ch # HungChannel /\ InfoCall(p))
    \/ (HungChannel \notin DOMAIN plugins /\ HealthSweep(p))

\* A call into the module of HungChannel, which returns or does not.
ModuleStep(p) ==
    \/ (op[p].ch = HungChannel /\ LoadOpen(p))
    \/ (op[p].ch = HungChannel /\ InfoCall(p))
    \/ (HungChannel \in DOMAIN plugins /\ HealthSweep(p))

NextHang ==
    \/ \E p \in Procs : HangCall(p)
    \/ \E p \in Procs : Return(p)
    \/ \E p \in Procs : LockAnnounce(p)
    \/ \E p \in Procs : RLock(p)
    \/ \E p \in Procs : AnsweringStep(p)
    \/ \E p \in Procs : ModuleStep(p)

\* The scheduler runs every goroutine that can take a step and the mutex
\* serves every goroutine that asks again and again; nothing makes a module
\* of HungChannel return.
SpecHang ==
    /\ Init
    /\ [][NextHang]_vars
    /\ \A p \in Procs :
          /\ WF_vars(AnsweringStep(p))
          /\ SF_vars(LockAnnounce(p))
          /\ SF_vars(RLock(p))

(* ------------------ the read operations of a host --------------------- *)
\* Channels are loaded and looked up while the host lists them, asks for
\* their metadata and probes their health; instances may start to fail.
ReadOnlyCall(p) ==
    CallWith(p, {"LoadPlugin", "GetPlugin", "ListPlugins", "GetPluginInfo",
                 "HealthCheck"}, DispatchInputs)

NextReadOnly ==
    \/ \E p \in Procs : ReadOnlyCall(p)
    \/ \E p \in Procs : Return(p)
    \/ \E p \in Procs : LockAnnounce(p)
    \/ \E p \in Procs : LockAcquire(p)
    \/ \E p \in Procs : RLock(p)
    \/ \E p \in Procs : LoadCheck(p)
    \/ \E p \in Procs : LoadOpen(p)
    \/ \E p \in Procs : LoadStore(p)
    \/ \E p \in Procs : GetLookup(p)
    \/ \E p \in Procs : GetWriteLast(p)
    \/ \E p \in Procs : GetRead(p)
    \/ \E p \in Procs : GetWrite(p)
    \/ \E p \in Procs : ListCopy(p)
    \/ \E p \in Procs : InfoLookup(p)
    \/ \E p \in Procs : InfoCall(p)
    \/ \E p \in Procs : HealthSweep(p)
    \/ \E i \in 1..MaxInst : InstanceFail(i)

SpecReadOnly == Init /\ [][NextReadOnly]_vars

(* -------------------- the mock payment channel ------------------------- *)
\* time.Since(mockOrder.CreatedAt) > 5*time.Second, > 3*time.Second
CollectDelay == 5
PayoutDelay == 3

CreateOps == {"CollectOrder", "PayoutOrder"}
QueryOps == {"CollectQuery", "PayoutQuery"}

\* The order IDs the callers of the mock channel use.
MockOrderIDs == {<<1, 0>>}

\* &MockOrder{..., Status: "pending" | "processing", CreatedAt: time.Now()}
NewMockOrder(name, t) ==
    [Status |-> IF name = "CollectOrder" THEN "pending" ELSE "processing",
     CreatedAt |-> t, PaidAt |-> NilTime, CompletedAt |-> NilTime]

\* shouldSucceed: rand.Float64() < rate
ShouldSucceed(config) ==
    IF config.success_rate >= 100 THEN {TRUE}
    ELSE IF config.success_rate <= 0 THEN {FALSE}
    ELSE BOOLEAN

\* The status update of CollectQuery and PayoutQuery on the order found.
QueryUpdate(name, o, t) ==
    IF name = "CollectQuery" /\ o.Status = "pending"
          /\ t - o.CreatedAt > CollectDelay
    THEN [o EXCEPT !.Status = "completed", !.PaidAt = t]
    ELSE IF name = "PayoutQuery" /\ o.Status = "processing"
          /\ t - o.CreatedAt > PayoutDelay
    THEN [o EXCEPT !.Status = "completed", !.CompletedAt = t]
    ELSE o

\* Goroutine p is between the start and the end of an access to mc.orders.
InMapWrite(p) == pc[p] = "m_write"
InMapRead(p) == pc[p] = "m_read"

\* A caller invokes an operation of the instance with an order ID.
MockCallWith(p, names, ids) ==
    /\ pc[p] = "idle"
    /\ ~fatal
    /\ \E name \in names, id \in ids :
          /\ op' = [op EXCEPT ![p] = [NoOp EXCEPT !.name = name, !.ch = "mock"]]
          /\ loc' = [loc EXCEPT ![p] = [NoLoc EXCEPT !.order = id]]
    /\ pc' = [pc EXCEPT ![p] = "m_delay"]
    /\ UNCHANGED <<plugins, heap, mutex, res, out, snap, now, nextInst,
                   removed, lookups, instMode, script, channels, mc, clock,
                   fatal, failedOrders, perf>>

MockCall(p) == MockCallWith(p, CreateOps \cup QueryOps, MockOrderIDs)

\* simulateDelay() is over and the access to mc.orders begins: the
\* assignment mc.orders[req.OrderID] = mockOrder of the create operations,
\* the lookup mc.orders[req.OrderID] of the queries.  No lock is taken.  If
\* the map is being written by another goroutine the runtime may throw
\* "concurrent map writes" / "concurrent map read and map write".
MockBegin(p) ==
    /\ pc[p] = "m_delay"
    /\ ~fatal
    /\ pc' = [pc EXCEPT ![p] =
                 IF op[p].name \in CreateOps THEN "m_write" ELSE "m_read"]
    /\ IF \E q \in Procs \ {p} :
             \/ InMapWrite(q)
             \/ (op[p].name \in CreateOps /\ InMapRead(q))
       THEN fatal' \in BOOLEAN
       ELSE fatal' = fatal
    /\ UNCHANGED <<plugins, heap, mutex, op, loc, res, out, snap, now,
                   nextInst, removed, lookups, instMode, script, channels, mc,
                   clock, failedOrders, perf>>

\* CollectOrder, PayoutOrder: the order is stored, then shouldSucceed()
\* decides whether the response reports success or failure.
MockCreate(p) ==
    /\ pc[p] = "m_write"
    /\ ~fatal
    /\ mc' = [mc EXCEPT !.orders =
                 Extend(@, loc[p].order, NewMockOrder(op[p].name, clock))]
    /\ \E ok \in ShouldSucceed(mc.config) :
          /\ out' = [out EXCEPT ![p] =
                [kind |-> "response",
                 v |-> [Success |-> ok,
                        Code |-> IF ok THEN "SUCCESS" ELSE "MOCK_ERROR",
                        Status |-> IF ~ok THEN "failed"
                                   ELSE IF op[p].name = "CollectOrder"
                                   THEN "pending" ELSE "processing",
                        PaidAt |-> NilTime, CompletedAt |-> NilTime]]]
          /\ failedOrders' = IF ok THEN failedOrders \ {loc[p].order}
                             ELSE failedOrders \cup {loc[p].order}
    /\ res' = [res EXCEPT ![p] = "ok"]
    /\ pc' = [pc EXCEPT ![p] = "done"]
    /\ UNCHANGED <<plugins, heap, mutex, op, loc, snap, now, nextInst,
                   removed, lookups, instMode, script, channels, clock, fatal,
                   perf>>

\* CollectQuery, PayoutQuery: ORDER_NOT_FOUND, or the status update and the
\* response built from the order.
MockQuery(p) ==
    /\ pc[p] = "m_read"
    /\ ~fatal
    /\ IF loc[p].order \notin DOMAIN mc.orders
       THEN /\ out' = [out EXCEPT ![p] =
                  [kind |-> "response",
                   v |-> [Success |-> FALSE, Code |-> "ORDER_NOT_FOUND",
                          Status |-> "", PaidAt |-> NilTime,
                          CompletedAt |-> NilTime]]]
            /\ mc' = mc
       ELSE LET o == QueryUpdate(op[p].name, mc.orders[loc[p].order], clock) IN
            /\ mc' = [mc EXCEPT !.orders[loc[p].order] = o]
            /\ out' = [out EXCEPT ![p] =
                  [kind |-> "response",
                   v |-> [Success |-> TRUE, Code |-> "SUCCESS",
                          Status |-> o.Status,
                          PaidAt |-> IF op[p].name = "CollectQuery"
                                     THEN o.PaidAt ELSE NilTime,
                          CompletedAt |-> IF op[p].name = "PayoutQuery"
                                          THEN o.CompletedAt ELSE NilTime]]]
    /\ res' = [res EXCEPT ![p] = "ok"]
    /\ pc' = [pc EXCEPT ![p] = "done"]
    /\ UNCHANGED <<plugins, heap, mutex, op, loc, snap, now, nextInst,
                   removed, lookups, instMode, script, channels, clock, fatal,
                   failedOrders, perf>>

\* A second goes by.
Tick ==
    /\ clock < MaxClock
    /\ ~fatal
    /\ clock' = clock + 1
    /\ UNCHANGED <<plugins, heap, mutex, pc, op, loc, res, out, snap, now,
                   nextInst, removed, lookups, instMode, script, channels, mc,
                   fatal, failedOrders, perf>>

NextMock ==
    \/ \E p \in Procs : MockCall(p)
    \/ \E p \in Procs : MockBegin(p)
    \/ \E p \in Procs : MockCreate(p)
    \/ \E p \in Procs : MockQuery(p)
    \/ \E p \in Procs : Return(p)
    \/ Tick

SpecMock == Init /\ [][NextMock]_vars

(* ------------- runPerformanceTest of cmd/performance ------------------- *)
\* Worker i of the pool runs as goroutine i + 1.
WorkerProc(workerID) == workerID + 1
Workers == {p \in Procs : p <= perf.concurrency}

\* main has loaded the channel, looked it up once and initialised it with a
\* success rate of 1.0; it calls runPerformanceTest(paymentChannel,
\* concurrency, totalRequests), which makes the request channel of
\* capacity totalRequests.
PerfStart ==
    /\ perf.pc = "none"
    /\ ~fatal
    /\ \A p \in Procs : pc[p] = "idle"
    /\ \E concurrency \in 1..NumProcs, totalRequests \in 0..MaxRequests :
          perf' = [NoPerf EXCEPT !.pc = "spawn",
                                 !.concurrency = concurrency,
                                 !.totalRequests = totalRequests,
                                 !.consumed = [r \in 0..(totalRequests - 1) |-> 0]]
    /\ mc' = [mc EXCEPT !.config = [success_rate |-> 100]]
    /\ UNCHANGED <<plugins, heap, mutex, pc, op, loc, res, out, snap, now,
                   nextInst, removed, lookups, instMode, script, channels,
                   clock, fatal, failedOrders>>

\* for i := 0; i < concurrency; i++ { wg.Add(1); go func(workerID int) ... }
PerfSpawn ==
    /\ perf.pc = "spawn"
    /\ ~fatal
    /\ IF perf.started < perf.concurrency
       THEN /\ perf' = [perf EXCEPT !.wg = @ + 1, !.started = @ + 1]
            /\ pc' = [pc EXCEPT ![WorkerProc(perf.started)] = "w_recv"]
       ELSE /\ perf' = [perf EXCEPT !.pc = "send"]
            /\ pc' = pc
    /\ UNCHANGED <<plugins, heap, mutex, op, loc, res, out, snap, now,
                   nextInst, removed, lookups, instMode, script, channels, mc,
                   clock, fatal, failedOrders>>

\* for i := 0; i < totalRequests; i++ { requestChan <- i }: a send waits
\* while the buffer is full.
PerfSend ==
    /\ perf.pc = "send"
    /\ ~fatal
    /\ IF perf.i < perf.totalRequests
       THEN /\ Len(perf.requestChan) < perf.totalRequests
            /\ perf' = [perf EXCEPT !.requestChan = Append(@, perf.i),
                                    !.i = @ + 1]
       ELSE perf' = [perf EXCEPT !.pc = "close"]
    /\ UNCHANGED <<plugins, heap, mutex, pc, op, loc, res, out, snap, now,
                   nextInst, removed, lookups, instMode, script, channels, mc,
                   clock, fatal, failedOrders>>

\* close(requestChan)
PerfClose ==
    /\ perf.pc = "close"
    /\ ~fatal
    /\ perf' = [perf EXCEPT !.closed = TRUE, !.pc = "wait"]
    /\ UNCHANGED <<plugins, heap, mutex, pc, op, loc, res, out, snap, now,
                   nextInst, removed, lookups, instMode, script, channels, mc,
                   clock, fatal, failedOrders>>

\* wg.Wait(); return &PerformanceTestResult{...}
PerfWait ==
    /\ perf.pc = "wait"
    /\ ~fatal
    /\ perf.wg = 0
    /\ perf' = [perf EXCEPT !.pc = "returned"]
    /\ UNCHANGED <<plugins, heap, mutex, pc, op, loc, res, out, snap, now,
                   nextInst, removed, lookups, instMode, script, channels, mc,
                   clock, fatal, failedOrders>>

\* for requestID := range requestChan: the worker receives a request number
\* and calls paymentChannel.CollectOrder with the order ID made from its
\* workerID and the number.
WorkerReceive(p) ==
    /\ pc[p] = "w_recv"
    /\ ~fatal
    /\ perf.requestChan # << >>
    /\ LET requestID == Head(perf.requestChan) IN
       /\ perf' = [perf EXCEPT !.requestChan = Tail(@),
                               !.consumed[requestID] = @ + 1]
       /\ op' = [op EXCEPT ![p] =
                    [NoOp EXCEPT !.name = "CollectOrder", !.ch = "mock"]]
       /\ loc' = [loc EXCEPT ![p] =
                    [NoLoc EXCEPT !.order = <<p - 1, requestID>>,
                                  !.n = requestID]]
    /\ pc' = [pc EXCEPT ![p] = "m_delay"]
    /\ UNCHANGED <<plugins, heap, mutex, res, out, snap, now, nextInst,
                   removed, lookups, instMode, script, channels, mc, clock,
                   fatal, failedOrders>>

\* CollectOrder has returned: atomic.AddInt64 on failedCount or
\* successCount, the latency statistics under latencyMutex, and back to
\* the head of the loop.
WorkerCount(p) ==
    /\ pc[p] = "done"
    /\ perf.pc # "none"
    /\ ~fatal
    /\ perf' = IF res[p] # "ok"
               THEN [perf EXCEPT !.failedCount = @ + 1]
               ELSE [perf EXCEPT !.successCount = @ + 1]
    /\ pc' = [pc EXCEPT ![p] = "w_recv"]
    /\ op' = [op EXCEPT ![p] = NoOp]
    /\ res' = [res EXCEPT ![p] = "none"]
    /\ out' = [out EXCEPT ![p] = NoOut]
    /\ loc' = [loc EXCEPT ![p] = NoLoc]
    /\ UNCHANGED <<plugins, heap, mutex, snap, now, nextInst, removed,
                   lookups, instMode, script, channels, mc, clock, fatal,
                   failedOrders>>

\* The channel is closed and drained: the range loop ends and the deferred
\* wg.Done() runs.
WorkerExit(p) ==
    /\ pc[p] = "w_recv"
    /\ ~fatal
    /\ perf.requestChan = << >>
    /\ perf.closed
    /\ perf' = [perf EXCEPT !.wg = @ - 1]
    /\ pc' = [pc EXCEPT ![p] = "w_exit"]
    /\ UNCHANGED <<plugins, heap, mutex, op, loc, res, out, snap, now,
                   nextInst, removed, lookups, instMode, script, channels, mc,
                   clock, fatal, failedOrders>>

\* The steps of the goroutine of main, and those of worker p.
PerfMain == PerfSpawn \/ PerfSend \/ PerfClose \/ PerfWait

WorkerStep(p) ==
    \/ WorkerReceive(p) \/ MockBegin(p) \/ MockCreate(p)
    \/ WorkerCount(p) \/ WorkerExit(p)

NextPerf ==
    \/ PerfStart
    \/ PerfMain
    \/ \E p \in Procs : WorkerStep(p)

\* The Go scheduler runs every goroutine that can take a step.
SpecPerf ==
    /\ Init
    /\ [][NextPerf]_vars
    /\ WF_vars(PerfMain)
    /\ \A p \in Procs : WF_vars(WorkerStep(p))

(* ============================ properties =============================== *)
Registered == DOMAIN plugins

\* The registry as a caller of the operations sees it: channelID -> record.
RegistryView == [c \in DOMAIN plugins |-> heap[plugins[c]]]

\* Goroutine p returns from a call of operation name in this step.
Returns(p, name) ==
    /\ op[p].name = name
    /\ pc[p] \notin {"idle", "done"}
    /\ pc'[p] = "done"

\* Goroutine p waits for a lock that it holds itself: nobody else can
\* release it, so p and every later caller of the registry wait for ever.
SelfBlocked(p) == pc[p] = "lock" /\ mutex.writer = p

InWriteSection(p) ==
    pc[p] \in {"load_check", "load_open", "load_store", "unl_check",
               "unl_delete", "rel_check", "rel_delete"}

InReadSection(p) ==
    pc[p] \in {"get_lookup", "get_wlast", "get_read", "get_write", "list_copy",
               "info_lookup", "info_call", "hc_sweep"}

\* C1: concurrent LoadPlugin calls with one channelID: a registered channel's
\* record is never replaced by another load, a LoadPlugin of a loadable
\* module returns either success or AlreadyLoaded, success only by the call
\* that registered a channelID that was absent, AlreadyLoaded only when the
\* channelID was registered, and then the registry is left as it was.
C1_OneLoadPerChannel ==
    [][ /\ \A c \in Registered \cap DOMAIN plugins' : plugins'[c] = plugins[c]
        /\ \A p \in Procs :
              Returns(p, "LoadPlugin") =>
                 /\ op[p].path \in GoodPaths \ removed
                       => res'[p] \in {"ok", "AlreadyLoaded"}
                 /\ res'[p] = "ok"
                       => /\ op[p].ch \notin Registered
                          /\ op[p].ch \in DOMAIN plugins'
                          /\ plugins'[op[p].ch] = loc[p].inst.id
                 /\ res'[p] = "AlreadyLoaded"
                       => /\ op[p].ch \in Registered
                          /\ plugins' = plugins /\ heap' = heap ]_vars

\* Two callers loaded loadable modules under one channelID while both calls
\* were outstanding: one succeeded, the other got AlreadyLoaded.
C1_Witness ==
    \E p, q \in Procs :
        /\ p # q
        /\ pc[p] = "done" /\ pc[q] = "done"
        /\ op[p].name = "LoadPlugin" /\ op[q].name = "LoadPlugin"
        /\ op[p].ch = op[q].ch
        /\ op[p].path \in GoodPaths /\ op[q].path \in GoodPaths
        /\ res[p] = "ok" /\ res[q] = "AlreadyLoaded"

\* C2: whenever no GetPlugin is in progress on a registered channel, its
\* usageCount equals the number of successful GetPlugin calls made on it.
C2_UsageCountExact ==
    \A c \in Registered :
        (\A q \in PendingGets : op[q].ch # c) =>
            heap[plugins[c]].UsageCount = lookups[plugins[c]]

\* C3: ReloadPlugin of a registered channel whose artifact still loads
\* completes: it is never left waiting, with the record removed, for a lock
\* that only itself could release.
C3_ReloadCompletes ==
    \A p \in Procs :
        (op[p].name = "ReloadPlugin" /\ loc[p].nested
           /\ OpenModule(loc[p].path, removed) = NoErr)
        => ~SelfBlocked(p)

\* C4: ReloadPlugin of a registered channel whose artifact no longer loads
\* returns the load error: it is never left waiting for ever without having
\* returned anything.
C4_ReloadReturnsLoadError ==
    \A p \in Procs :
        (op[p].name = "ReloadPlugin" /\ loc[p].nested
           /\ OpenModule(loc[p].path, removed) # NoErr)
        => ~SelfBlocked(p)

\* C5: every record of the registry caches metadata that is non-nil, has a
\* name, a version and a channel type and at least one capability, and that
\* is what its instance reported; a LoadPlugin that ends in a validation
\* failure has inserted nothing.
C5_RegisteredMetadataValid ==
    /\ \A c \in Registered :
          LET r == heap[plugins[c]] IN
             /\ ~r.Info.nil
             /\ r.Info.Name # ""
             /\ r.Info.Version # ""
             /\ r.Info.ChannelType # ""
             /\ Len(r.Info.Capabilities) >= 1
             /\ r.Info = InstanceGetInfo(r.Instance)
    /\ \A p \in Procs :
          (pc[p] = "done" /\ res[p] = "MetadataValidationError")
             => \A c \in Registered : heap[plugins[c]].Instance.art # op[p].path

\* A module was rejected by validation while another is registered.
C5_Witness ==
    /\ Registered # {}
    /\ \E p \in Procs :
          /\ pc[p] = "done"
          /\ op[p].name = "LoadPlugin"
          /\ res[p] = "MetadataValidationError"
          /\ op[p].ch \notin Registered

\* C6: validatePluginInfo returns an error exactly when the metadata is nil
\* or its name, version or channel type is empty or it has no capability,
\* and the registry is as it was before the call.
C6_ValidateIff ==
    \A p \in Procs :
        (pc[p] = "done" /\ op[p].name = "validatePluginInfo") =>
            /\ res[p] # NoErr <=>
                  \/ op[p].info.nil
                  \/ op[p].info.Name = ""
                  \/ op[p].info.Version = ""
                  \/ op[p].info.ChannelType = ""
                  \/ op[p].info.Capabilities = << >>
            /\ plugins = [c \in {"mock"} |-> 1]
            /\ heap = [i \in {1} |-> LoadedMock]
            /\ mutex = [writer |-> NoProc, readers |-> {}]

\* validatePluginInfo has accepted fully populated metadata.
C6_Witness ==
    \E p \in Procs :
        /\ pc[p] = "done"
        /\ op[p].name = "validatePluginInfo"
        /\ res[p] = NoErr
        /\ Len(op[p].info.Capabilities) = 2

\* C7: GetPlugin, UnloadPlugin, ReloadPlugin and GetPluginInfo that find
\* their channelID unregistered return NotFound, and the registry (the set
\* of channelIDs and every record) is what it was before.
C7_NotFoundNoEffect ==
    [][ \A p \in Procs :
          ( /\ \/ Returns(p, "GetPlugin") \/ Returns(p, "UnloadPlugin")
               \/ Returns(p, "ReloadPlugin") \/ Returns(p, "GetPluginInfo")
            /\ op[p].ch \notin Registered )
          => /\ res'[p] = "NotFound"
             /\ plugins' = plugins
             /\ heap' = heap ]_vars

\* UnloadPlugin of a channel that another caller had just unloaded has
\* returned NotFound while another channel is registered.
C7_Witness ==
    \E p, q \in Procs :
        /\ pc[p] = "done" /\ pc[q] = "done"
        /\ op[p].name = "UnloadPlugin" /\ op[q].name = "UnloadPlugin"
        /\ op[p].ch = op[q].ch
        /\ res[q] = "ok"
        /\ res[p] = "NotFound"
        /\ Registered # {}

C9_MutationsExclusive ==
    \A p, q \in Procs :
        (p # q /\ (InWriteSection(p) \/ loc[p].nested))
           => ~InWriteSection(q) /\ ~InReadSection(q) /\ ~loc[q].nested

\* UnloadPlugin is about to delete a channel while a LoadPlugin of the same
\* channelID waits for the lock.
C9_Witness ==
    \E p, q \in Procs :
        /\ pc[p] = "unl_delete"
        /\ op[q].name = "LoadPlugin"
        /\ pc[q] = "lock"
        /\ op[p].ch = op[q].ch

\* C10: nothing a caller does to the map returned by ListPlugins, or to the
\* records it reaches through it, changes what the registry holds.
C10_ListIsDefensiveCopy ==
    [][ (\E p \in Procs : CallerWrite(p) \/ CallerDropKey(p))
          => RegistryView' = RegistryView ]_vars

\* Registered channels by what GetInfo() of their instance does.
ChannelsInMode(m) == {c \in Registered : ModeOf(heap[plugins[c]].Instance) = m}

\* C11: a HealthCheck made while two channels are registered, one whose
\* GetInfo() fails (returns nil or panics) and one whose GetInfo() works,
\* returns a mapping with false for the first and true for the second.
C11_HealthIsolation ==
    [][ \A p \in Procs :
          ( /\ Returns(p, "HealthCheck")
            /\ Cardinality(Registered) = 2
            /\ Cardinality(ChannelsInMode("ok")) = 1 )
          => /\ res'[p] = "ok"
             /\ out'[p].kind = "health"
             /\ DOMAIN out'[p].v = Registered
             /\ \A c \in Registered :
                   out'[p].v[c] = (c \in ChannelsInMode("ok")) ]_vars

\* C12: when GetInfo() of every registered instance returns, HealthCheck
\* returns a mapping whose keys are exactly the channelIDs registered at
\* the call (none for an empty registry), with true exactly for the
\* channels whose GetInfo() result is not nil.
C12_HealthMapping ==
    [][ \A p \in Procs :
          (Returns(p, "HealthCheck") /\ ChannelsInMode("panic") = {})
          => /\ res'[p] = "ok"
             /\ out'[p].kind = "health"
             /\ DOMAIN out'[p].v = Registered
             /\ \A c \in Registered :
                   out'[p].v[c] = (c \notin ChannelsInMode("nil")) ]_vars

\* A HealthCheck has reported one channel healthy and the other not.
C12_Witness ==
    \E p \in Procs :
        /\ pc[p] = "done"
        /\ op[p].name = "HealthCheck"
        /\ out[p].kind = "health"
        /\ \E c, d \in DOMAIN out[p].v : out[p].v[c] /\ ~out[p].v[d]

\* C13: the calls of the serial caller on a fresh registry end as follows:
\* LoadPlugin succeeds and ListPlugins then has exactly the one entry;
\* each of the three GetPlugin calls succeeds and the third leaves
\* usageCount at 3; the second LoadPlugin fails with AlreadyLoaded and
\* changes nothing; UnloadPlugin succeeds and ListPlugins is then empty; the
\* last GetPlugin fails with NotFound.
C13_EndToEnd ==
    [][ \A p \in Procs :
          (pc[p] \notin {"idle", "done"} /\ pc'[p] = "done") =>
             LET k == script.step
                 c == script.ch
             IN
             /\ k = 1 => /\ res'[p] = "ok"
                         /\ DOMAIN plugins' = {c}
             /\ k = 2 => /\ DOMAIN snap'[p] = {c}
                         /\ snap'[p][c] = plugins[c]
             /\ k \in 3..5 => /\ res'[p] = "ok"
                               /\ out'[p] = [kind |-> "instance",
                                             v |-> heap[plugins[c]].Instance]
                               /\ heap'[plugins[c]].UsageCount = k - 2
             /\ k = 6 => /\ res'[p] = "AlreadyLoaded"
                         /\ plugins' = plugins
                         /\ heap' = heap
             /\ k = 7 => /\ res'[p] = "ok"
                         /\ plugins' = EmptyMap
             /\ k = 8 => snap'[p] = EmptyMap
             /\ k = 9 => /\ res'[p] = "NotFound"
                         /\ plugins' = EmptyMap ]_vars

\* The serial caller has made its last call and got NotFound.
C13_Witness ==
    \E p \in Procs :
        /\ script.step = Len(ScriptOps)
        /\ pc[p] = "done"
        /\ op[p].name = "GetPlugin"
        /\ res[p] = "NotFound"

\* Goroutine p is inside a registry operation.
InRegistryCall(p) == pc[p] \notin {"idle", "done", "payment"}

\* C14: a goroutine inside a payment operation of a module holds no registry
\* lock, and every GetPlugin, LoadPlugin or UnloadPlugin call that has been
\* started completes, whether or not the payment calls in progress return.
C14_PaymentOutsideLock ==
    /\ [](\A p \in Procs :
            pc[p] = "payment" => mutex.writer # p /\ p \notin mutex.readers)
    /\ \A q \in Procs : InRegistryCall(q) ~> pc[q] = "done"

\* While a payment call on one channel is in progress, another goroutine
\* is in the exclusive section of UnloadPlugin for another channel.
C14_Witness ==
    \E p, q \in Procs :
        /\ pc[p] = "payment"
        /\ pc[q] = "unl_delete"
        /\ op[q].ch # op[p].ch

\* C15: in every step of concurrent GetPlugin calls on one channelID the
\* stored usageCount of the record is at least what it was before the step.
C15_UsageCountMonotonic ==
    [][ \A i \in DOMAIN heap \cap DOMAIN heap' :
          heap'[i].UsageCount >= heap[i].UsageCount ]_vars

\* C16: while a GetPlugin has written lastUsedAt of a record and not yet its
\* usageCount, no other goroutine can read the record: none is in a GetPlugin
\* that looked the record up, and none holds it in a map that ListPlugins
\* returned.
C16_BookkeepingAtomic ==
    \A p \in Procs :
        pc[p] \in {"get_read", "get_write"} =>
            \A q \in Procs \ {p} :
                /\ loc[q].rec # loc[p].rec
                /\ \A c \in DOMAIN snap[q] : snap[q][c] # loc[p].rec

\* C17: once GetPlugin calls on the loaded channel have completed and none
\* is in progress, lastUsedAt of the record is the latest timestamp any of
\* them took (GetPlugin is the only reader of the clock here, so that is
\* the clock's last reading).
C17_LastUsedIsLatest ==
    (PendingGets = {} /\ lookups[plugins["mock"]] > 0)
        => heap[plugins["mock"]].LastUsed = now

\* C18: a LoadPlugin(path, channelID) that returns success has inserted one
\* new record under channelID, which was absent: it keeps the path, holds
\* the instance the factory produced and the validated metadata the
\* instance reported, has loadedAt equal to the time read at the load and
\* usageCount 0; every other channelID keeps its record unchanged.
C18_LoadInsertsRecord ==
    [][ \A p \in Procs :
          (Returns(p, "LoadPlugin") /\ res'[p] = "ok") =>
             LET c == op[p].ch IN
             /\ c \notin DOMAIN plugins
             /\ DOMAIN plugins' = DOMAIN plugins \cup {c}
             /\ plugins'[c] \notin DOMAIN heap
             /\ LET r == heap'[plugins'[c]] IN
                   /\ r.Path = op[p].path
                   /\ r.Instance = loc[p].inst
                   /\ r.Instance = [id |-> nextInst, art |-> op[p].path]
                   /\ r.Info = ArtifactInfo(op[p].path)
                   /\ validatePluginInfo(r.Info) = NoErr
                   /\ r.LoadedAt = now'
                   /\ now' >= now /\ now' >= 1
                   /\ r.LastUsed = 0
                   /\ r.UsageCount = 0
             /\ \A d \in DOMAIN plugins :
                   /\ plugins'[d] = plugins[d]
                   /\ heap'[plugins[d]] = heap[plugins[d]] ]_vars

\* A LoadPlugin has succeeded while another channel was registered.
C18_Witness ==
    \E p \in Procs :
        /\ pc[p] = "done"
        /\ op[p].name = "LoadPlugin"
        /\ res[p] = "ok"
        /\ op[p].ch \in Registered
        /\ Cardinality(Registered) = 2

\* C19: a LoadPlugin that does not succeed returns one of its errors and
\* leaves the registry as it was; unless the error is AlreadyLoaded, the
\* channelID is still unregistered afterwards.
C19_FailedLoadLeavesRegistry ==
    [][ \A p \in Procs :
          (Returns(p, "LoadPlugin") /\ res'[p] # "ok") =>
             /\ res'[p] \in LoadErrors
             /\ plugins' = plugins
             /\ heap' = heap
             /\ res'[p] # "AlreadyLoaded" => op[p].ch \notin DOMAIN plugins' ]_vars

\* C20: a LoadPlugin whose factory returns a nil instance returns an
\* InstantiationError, registers nothing and leaves the lock released.
C20_NilInstanceIsError ==
    [][ \A p \in Procs :
          ( /\ Returns(p, "LoadPlugin")
            /\ pc[p] = "load_open"
            /\ OpenModule(op[p].path, removed) = NoErr
            /\ ~FactoryReturnsInstance(op[p].path) )
          => /\ res'[p] = "InstantiationError"
             /\ plugins' = plugins
             /\ mutex'.writer = NoProc ]_vars

\* Payment operations executed so far on the instance of record i by the
\* callers that hold it.
PaymentsOn(i) ==
    SumOver([q \in Procs |->
                IF pc[q] = "done" /\ op[q].name = "GetPlugin" /\ res[q] = "ok"
                   /\ out[q].v.id = i
                THEN loc[q].n ELSE 0],
            Procs)

\* C21: the payment operations executed on a registered channel's instance
\* never outnumber the usageCount recorded for the channel.
C21_DispatchCounted ==
    \A c \in Registered : PaymentsOn(plugins[c]) <= heap[plugins[c]].UsageCount

\* C22: a dispatch to a channel that is not registered returns NotFound and
\* has invoked no module; a dispatch to a registered channel has invoked the
\* module's operation exactly once and returns the module's error, or the
\* module's response when there is no error, as the module gave it.
C22_DispatchPassThrough ==
    [][ \A p \in Procs :
          (op[p].name = "ProcessPayment" /\ pc[p] # "done" /\ pc'[p] = "done") =>
             IF op[p].ch \notin channels
             THEN res'[p] = "NotFound" /\ loc[p].n = 0
             ELSE /\ loc[p].n = 1
                  /\ res'[p] = loc[p].err
                  /\ loc[p].err = "ok" =>
                        out'[p] = [kind |-> "response", v |-> loc[p].resp] ]_vars

\* The error kind each cause of failure of LoadPlugin stands for: one kind
\* per cause.
ExpectedLoadKind(path, gone, registered) ==
    IF registered THEN "AlreadyLoaded"
    ELSE IF path = "missing.so" \/ path \in gone THEN "OpenError"
    ELSE CASE path = "nosym.so"   -> "EntryPointMissing"
           [] path = "badsig.so"  -> "EntryPointSignatureMismatch"
           [] path = "nilinst.so" -> "InstantiationError"
           [] OTHER               -> "MetadataValidationError"

\* C23: a LoadPlugin, GetPlugin, UnloadPlugin or ReloadPlugin that fails
\* returns the error kind of the cause of the failure: AlreadyLoaded,
\* OpenError, EntryPointMissing, EntryPointSignatureMismatch,
\* InstantiationError or MetadataValidationError for LoadPlugin, NotFound
\* for the others.
C23_ErrorKinds ==
    [][ \A p \in Procs :
          /\ (Returns(p, "LoadPlugin") /\ res'[p] # "ok") =>
                res'[p] = ExpectedLoadKind(op[p].path, removed,
                                           op[p].ch \in Registered)
          /\ ( /\ \/ Returns(p, "GetPlugin") \/ Returns(p, "UnloadPlugin")
                   \/ Returns(p, "ReloadPlugin")
               /\ res'[p] # "ok" ) => res'[p] = "NotFound" ]_vars

\* C25: a ReloadPlugin call is never left waiting for the lock that it
\* holds itself, and once it has returned it holds the lock no more.
C25_ReloadReturns ==
    \A p \in Procs :
        op[p].name = "ReloadPlugin" =>
            /\ ~SelfBlocked(p)
            /\ pc[p] = "done" => mutex.writer # p

\* C26: no goroutine asks for the registry lock while it holds it, and
\* whenever no registry operation is in progress nobody holds the lock.
C26_LockDiscipline ==
    /\ \A p \in Procs :
          pc[p] \in {"lock", "rlock"} =>
              mutex.writer # p /\ p \notin mutex.readers
    /\ (\A p \in Procs : pc[p] \in {"idle", "done"}) =>
          mutex = [writer |-> NoProc, readers |-> {}]

\* C24: channels are loaded and unloaded over and over in one run of the
\* host: a successful UnloadPlugin(c) removes c and leaves every other
\* channel's record as it was, ListPlugins and HealthCheck return exactly
\* the registered channelIDs (so not an unloaded one), and a LoadPlugin of
\* a loadable module for a channelID that is not registered succeeds with
\* a record whose UsageCount is 0.
C24_LoadUnloadRepeatedly ==
    [][ \A p \in Procs :
          /\ (Returns(p, "UnloadPlugin") /\ res'[p] = "ok") =>
                /\ DOMAIN plugins' = DOMAIN plugins \ {op[p].ch}
                /\ \A d \in DOMAIN plugins' :
                      /\ plugins'[d] = plugins[d]
                      /\ heap'[plugins'[d]] = heap[plugins[d]]
          /\ Returns(p, "ListPlugins") => DOMAIN snap'[p] = DOMAIN plugins'
          /\ (Returns(p, "HealthCheck") /\ res'[p] = "ok") =>
                DOMAIN out'[p].v = DOMAIN plugins'
          /\ ( /\ Returns(p, "LoadPlugin")
               /\ op[p].ch \notin DOMAIN plugins
               /\ op[p].path \in GoodPaths \ removed ) =>
                /\ res'[p] = "ok"
                /\ op[p].ch \in DOMAIN plugins'
                /\ heap'[plugins'[op[p].ch]].UsageCount = 0
                /\ heap'[plugins'[op[p].ch]].Path = op[p].path ]_vars

\* A channel that was loaded, looked up and unloaded has been loaded again:
\* the list another goroutine took earlier still shows the first record with
\* its lookups, the registry holds the second one with none.
C24_Witness ==
    \E p, q \in Procs, c \in Registered :
        /\ pc[p] = "done" /\ op[p].name = "LoadPlugin" /\ op[p].ch = c
        /\ res[p] = "ok"
        /\ c \in DOMAIN snap[q]
        /\ snap[q][c] # plugins[c]
        /\ heap[snap[q][c]].UsageCount > 0
        /\ heap[plugins[c]].UsageCount = 0

\* C29: a LoadPlugin whose channelID is registered when it checks fails with
\* AlreadyLoaded at once, whatever its path is, and opens no module and
\* calls no factory; the factory is called only by a LoadPlugin whose
\* channelID is free and which has no instance yet, one instance per call,
\* and a successful load stores that instance.
C29_AlreadyLoadedFirst ==
    [][ /\ \A p \in Procs :
              /\ (pc[p] = "load_check" /\ pc'[p] # "load_check"
                     /\ op[p].ch \in DOMAIN plugins) =>
                    /\ pc'[p] = "done"
                    /\ res'[p] = "AlreadyLoaded"
                    /\ nextInst' = nextInst
              /\ (pc'[p] = "load_open" /\ pc[p] # "load_open") =>
                    pc[p] = "load_check" /\ op[p].ch \notin DOMAIN plugins
              /\ (pc'[p] = "load_store" /\ pc[p] # "load_store") =>
                    /\ pc[p] = "load_open"
                    /\ nextInst' = nextInst + 1
                    /\ loc'[p].inst.id = nextInst'
              /\ (Returns(p, "LoadPlugin") /\ res'[p] = "ok") =>
                    /\ pc[p] = "load_store"
                    /\ nextInst' = nextInst
                    /\ heap'[plugins'[op[p].ch]].Instance = loc[p].inst
        /\ nextInst' # nextInst =>
              /\ nextInst' = nextInst + 1
              /\ \E p \in Procs :
                    /\ pc[p] = "load_open" /\ pc'[p] # "load_open"
                    /\ loc[p].inst = NoInst
                    /\ op[p].ch \notin DOMAIN plugins ]_vars

\* A LoadPlugin with a path that cannot be opened has been refused with
\* AlreadyLoaded because its channelID is registered.
C29_Witness ==
    \E p \in Procs :
        /\ pc[p] = "done" /\ op[p].name = "LoadPlugin"
        /\ op[p].path = "missing.so"
        /\ res[p] = "AlreadyLoaded"
        /\ op[p].ch \in Registered
        /\ nextInst = 1

\* The statements of GetPlugin between its RLock and its return.
InGetPlugin(p) == pc[p] \in {"get_lookup", "get_wlast", "get_read", "get_write"}

\* C30: a step of GetPlugin(c) leaves the set of registered channelIDs, all
\* records other than c's, and the Path, Instance, Info and LoadedAt of c's
\* record as they are, and a successful GetPlugin(c) returns the Instance of
\* c's record.
C30_GetPluginFrame ==
    [][ \A p \in Procs :
          (InGetPlugin(p) /\ pc'[p] # pc[p]) =>
             /\ plugins' = plugins
             /\ DOMAIN heap' = DOMAIN heap
             /\ \A i \in DOMAIN heap :
                   /\ heap'[i].Path = heap[i].Path
                   /\ heap'[i].Instance = heap[i].Instance
                   /\ heap'[i].Info = heap[i].Info
                   /\ heap'[i].LoadedAt = heap[i].LoadedAt
                   /\ heap'[i] # heap[i] =>
                         op[p].ch \in DOMAIN plugins /\ i = plugins[op[p].ch]
             /\ res'[p] = "ok" =>
                   /\ op[p].ch \in DOMAIN plugins
                   /\ out'[p] = [kind |-> "instance",
                                 v |-> heap[plugins[op[p].ch]].Instance] ]_vars

\* GetPlugin has returned the instance of a channel and counted the lookup
\* while another channel is registered whose record has no lookup.
C30_Witness ==
    \E p \in Procs, c, d \in Registered :
        /\ c # d
        /\ pc[p] = "done" /\ op[p].name = "GetPlugin" /\ op[p].ch = c
        /\ res[p] = "ok"
        /\ out[p].v = heap[plugins[c]].Instance
        /\ heap[plugins[c]].UsageCount > 0
        /\ heap[plugins[c]].LastUsed > 0
        /\ heap[plugins[d]].UsageCount = 0
        /\ heap[plugins[d]].LastUsed = 0

\* C28: a goroutine inside GetPlugin, ListPlugins, GetPluginInfo or
\* HealthCheck holds the lock in shared mode and no goroutine is inside the
\* critical section of LoadPlugin, UnloadPlugin or ReloadPlugin meanwhile;
\* a goroutine inside such a critical section holds the lock alone, with no
\* reader, so the map is not read while it is inserted into or deleted from.
C28_ReadersShared ==
    \A p \in Procs :
        /\ InReadSection(p) =>
              /\ p \in mutex.readers
              /\ \A q \in Procs : ~InWriteSection(q) /\ ~loc[q].nested
        /\ (InWriteSection(p) \/ loc[p].nested) =>
              /\ mutex.writer = p
              /\ mutex.readers = {}

\* Two read operations hold the lock at the same time: one goroutine is in
\* the sweep of HealthCheck while another is in the middle of GetPlugin.
C28_Witness ==
    \E p, q \in Procs :
        /\ pc[p] = "hc_sweep"
        /\ pc[q] = "get_write"
        /\ {p, q} \subseteq mutex.readers
        /\ Registered # {}

\* C27: a GetPlugin, LoadPlugin or UnloadPlugin for a channelID other than
\* the one whose module hangs completes eventually.
C27_HungCallIsolated ==
    \A p \in Procs :
        ( /\ op[p].name \in {"GetPlugin", "LoadPlugin", "UnloadPlugin"}
          /\ op[p].ch # HungChannel
          /\ pc[p] \notin {"idle", "done"} ) ~> pc[p] = "done"

\* C31: a step of ListPlugins, GetPluginInfo or HealthCheck changes neither
\* the set of registered channelIDs nor any field of any record, and a
\* successful GetPluginInfo(c) returns what GetInfo of c's instance answers
\* at the call: nil once the instance has started to answer nil, although
\* the record still holds the metadata cached at load time.
C31_ReadOnlyOperations ==
    [][ \A p \in Procs :
          /\ ( /\ pc[p] \in {"list_copy", "info_lookup", "info_call", "hc_sweep"}
               /\ pc'[p] # pc[p] ) =>
                /\ plugins' = plugins
                /\ heap' = heap
                /\ lookups' = lookups
          /\ (Returns(p, "GetPluginInfo") /\ res'[p] = "ok") =>
                /\ op[p].ch \in DOMAIN plugins
                /\ LET inst == heap[plugins[op[p].ch]].Instance IN
                   /\ out'[p].kind = "info"
                   /\ out'[p].v.nil = (instMode[inst.id] = "nil")
                   /\ ~out'[p].v.nil => out'[p].v = ArtifactInfo(inst.art) ]_vars

\* GetPluginInfo has returned nil metadata for a channel whose record holds
\* valid cached metadata and has been looked up before.
C31_Witness ==
    \E p \in Procs :
        /\ pc[p] = "done" /\ op[p].name = "GetPluginInfo" /\ res[p] = "ok"
        /\ op[p].ch \in Registered
        /\ out[p].v.nil
        /\ ~heap[plugins[op[p].ch]].Info.nil
        /\ heap[plugins[op[p].ch]].UsageCount > 0

\* C32: a payment operation is started only on an instance that is
\* registered: once the UnloadPlugin that removed its record has returned,
\* no caller starts a payment operation on the instance.
C32_NoPaymentAfterUnload ==
    [][ \A p \in Procs :
          (pc'[p] = "payment" /\ pc[p] # "payment") =>
              \E c \in DOMAIN plugins : plugins[c] = out[p].v.id ]_vars

\* C33: the orders map of a mock channel instance is never written by one
\* caller while another caller reads or writes it.
C33_OrdersMapExclusive ==
    \A p, q \in Procs :
        (p # q /\ InMapWrite(p)) => ~InMapWrite(q) /\ ~InMapRead(q)

\* C34: the Status of a stored order changes only from pending to completed
\* (PaidAt set) by a CollectQuery, or from processing to completed
\* (CompletedAt set) by a PayoutQuery, made more than the completion delay
\* after the order was created, so a completed order stays completed; and a
\* query never reports pending or completed for an order whose creation
\* response reported failure.
C34_StatusOnlyForward ==
    [][ /\ \A id \in DOMAIN mc.orders \cap DOMAIN mc'.orders :
              LET o == mc.orders[id]
                  n == mc'.orders[id]
              IN
              n.Status # o.Status =>
                 \E p \in Procs :
                    /\ pc[p] = "m_read" /\ pc'[p] = "done"
                    /\ loc[p].order = id
                    /\ n.Status = "completed"
                    /\ \/ /\ op[p].name = "CollectQuery"
                          /\ o.Status = "pending"
                          /\ n.PaidAt # NilTime
                          /\ clock - o.CreatedAt > CollectDelay
                       \/ /\ op[p].name = "PayoutQuery"
                          /\ o.Status = "processing"
                          /\ n.CompletedAt # NilTime
                          /\ clock - o.CreatedAt > PayoutDelay
        /\ \A p \in Procs :
              ( /\ pc[p] = "m_read" /\ pc'[p] = "done"
                /\ loc[p].order \in failedOrders ) =>
                  out'[p].v.Status \notin {"pending", "completed"} ]_vars

\* C35: a started runPerformanceTest returns; no request number is received
\* by two workers; and on return every request number has been received by
\* exactly one worker, every worker has left its loop, and
\* SuccessfulRequests + FailedRequests = TotalRequests.
C35_PerformanceTestTerminates ==
    /\ (perf.pc # "none") ~> (perf.pc = "returned")
    /\ [](\A r \in DOMAIN perf.consumed : perf.consumed[r] <= 1)
    /\ [](perf.pc = "returned" =>
            /\ \A r \in DOMAIN perf.consumed : perf.consumed[r] = 1
            /\ \A p \in Workers : pc[p] = "w_exit"
            /\ perf.successCount + perf.failedCount = perf.totalRequests)

====
